---- MODULE Spec2Model ----
(***************************************************************************)
(* The chat component DebuggerChatbot of src/unnamed/part_003: the session *)
(* manager (create, switch, title, delete), the throttled ask with its     *)
(* remote round trip, the debounced persistence to localStorage and the    *)
(* periodic telemetry poll.                                                *)
(*                                                                         *)
(* Execution model.  JavaScript runs one task at a time, so every event    *)
(* handler, effect, timer callback and continuation after an await is one  *)
(* atomic action; the functional state updaters a handler queues are       *)
(* applied in order within it (React 18 batching, production build: every  *)
(* updater runs once).  A setTimeout(..., 0) callback is due at once: it   *)
(* runs before the clock advances and before the user, who acts on the     *)
(* re-rendered page, produces further input; completions of remote calls   *)
(* are independent of the page and may run before it.                      *)
(*                                                                         *)
(* Texts are sequences of fragments; a prompt typed by the user is a       *)
(* sequence of one-character fragments, so that length, trim and           *)
(* substring are computed on it as the code computes them.                 *)
(***************************************************************************)
EXTENDS Integers, Sequences, FiniteSets, TLC

(* ------------------------------ bounds -------------------------------- *)
\* identifiers uuidv4() may hand out during one run that starts with no
\* stored item, and during one that starts with a stored item
MaxUuid == 5
MaxUuidRestored == 3
\* identifiers of a run that studies the throttle, the payloads, the
\* telemetry poller, the debounced write, the ask, the stored messages
MaxUuidThrottle == 4
MaxUuidGateway == 3
MaxUuidTelemetry == 3
MaxUuidPersist == 3
MaxUuidAsk == 3
MaxUuidStore == 2
MaxUuidSwitch == 3
MaxUuidTsx == 3
MaxUuidNotify == 4
MaxUuidFlags == 4
MaxTimers == 2
MaxPending == 1
\* messages of a list generateSessionTitle is called with by itself
MaxTitleMsgs == 2
\* sessions the list may hold
MaxSessions == 3
\* clock ticks a run may take
MaxTicks == 2
\* poll cycles a run may start
MaxPolls == 2
\* length of the long prompt, one more than the title limit
LongLen == 41

(* ------------------------- program constants -------------------------- *)
THROTTLE_MS == 1000
DEBOUNCE_MS == 500
TITLE_MAX == 40
\* one clock tick: the shortest delay the program uses
StepMs == DEBOUNCE_MS

(* ------------------------------ texts --------------------------------- *)
Str(s) == <<s>>
EmptyText == <<>>
NEW_CHAT == Str("New Chat")
ELLIPSIS == Str("...")

IsSpace(c) == c = " "

RECURSIVE TrimLeft(_)
TrimLeft(t) ==
  IF t # <<>> /\ IsSpace(Head(t)) THEN TrimLeft(Tail(t)) ELSE t

RECURSIVE TrimRight(_)
TrimRight(t) ==
  IF t # <<>> /\ IsSpace(t[Len(t)]) THEN TrimRight(SubSeq(t, 1, Len(t) - 1)) ELSE t

\* String.prototype.trim
Trim(t) == TrimRight(TrimLeft(t))

Min(a, b) == IF a < b THEN a ELSE b
Max(a, b) == IF a > b THEN a ELSE b

\* String.prototype.substring(0, n)
Substring0(t, n) == SubSeq(t, 1, Min(n, Len(t)))

LongPrompt == [i \in 1..LongLen |-> "x"]
\* what the user may have typed when submitting
Terms == { <<" ">>, <<" ", "h", "i", " ">>, LongPrompt }

(* ----------------------------- sessions ------------------------------- *)
NoId == 0

\* Array.find: the first index at which the test, tabulated in flags, holds,
\* 0 when there is none
FindIndex(flags) ==
  IF \E i \in 1..Len(flags) : flags[i]
  THEN CHOOSE i \in 1..Len(flags) : flags[i] /\ \A j \in 1..(i - 1) : ~flags[j]
  ELSE 0

\* insertion of x into a list sorted by descending timestamp, after its equals
RECURSIVE InsertDesc(_, _)
InsertDesc(sorted, x) ==
  IF sorted = <<>> THEN <<x>>
  ELSE IF Head(sorted).timestamp >= x.timestamp
       THEN <<Head(sorted)>> \o InsertDesc(Tail(sorted), x)
       ELSE <<x>> \o sorted

\* Array.sort((a, b) => (b.timestamp || 0) - (a.timestamp || 0)), a stable sort
RECURSIVE SortByTimestampDesc(_)
SortByTimestampDesc(seq) ==
  IF seq = <<>> THEN <<>>
  ELSE InsertDesc(SortByTimestampDesc(SubSeq(seq, 1, Len(seq) - 1)), seq[Len(seq)])

\* the new session, were it not marked as new
createNewSessionUnmarked(uuid, clock) ==
  [id |-> uuid, name |-> NEW_CHAT, timestamp |-> clock, messages |-> <<>>, isNew |-> FALSE]

createNewSession(uuid, clock) ==
  [id |-> uuid, name |-> NEW_CHAT, timestamp |-> clock, messages |-> <<>>, isNew |-> TRUE]

generateSessionTitle(msgs) ==
  LET i == FindIndex([k \in 1..Len(msgs) |-> msgs[k].sender = "user"]) IN
  IF i # 0 /\ msgs[i].text # EmptyText
  THEN LET title == Substring0(msgs[i].text, TITLE_MAX) IN
       IF Len(title) < Len(msgs[i].text) THEN title \o ELLIPSIS ELSE title
  ELSE NEW_CHAT

\* src/src/components/DebuggerChatbot.tsx lines 80-87: generateSessionTitle of
\* the other chat component; undefined + "" is the text "undefined"
TITLE_MAX_TSX == 50
generateSessionTitleTsx(msgs) ==
  LET i == FindIndex([k \in 1..Len(msgs) |-> msgs[k].sender = "user"]) IN
  IF i = 0 THEN Str("undefined")
  ELSE LET title == Substring0(msgs[i].text, TITLE_MAX_TSX)
                      \o (IF Len(msgs[i].text) > TITLE_MAX_TSX THEN ELLIPSIS ELSE <<>>)
       IN IF title = EmptyText THEN NEW_CHAT ELSE title

\* a message; its timestamp field, which the component never reads, is left out
Message(uuid, sender, text, markdown) ==
  [id |-> uuid, sender |-> sender, text |-> text, isMarkdown |-> markdown]

Ids(sessions) == { sessions[i].id : i \in 1..Len(sessions) }

(* ------------------------- errors, handleError ------------------------ *)
\* fragments that contain the substring handleError looks for
TimedOutFrags == {"Connection timed out after 30000ms", "Task timed out after 3.00 seconds"}
NetworkErrorFrags == {"NetworkError when attempting to fetch resource."}
CredentialFrags == {"Missing credentials in config"}
LAMBDA_ERROR == "Lambda Error:"
SEP == " - "

\* String.prototype.includes, for the substrings tabulated above
Includes(t, frags) == \E i \in 1..Len(t) : t[i] \in frags

\* new Error(message), with the name and code the AWS SDK gives its errors
ErrorObj(name, code, message) ==
  [isError |-> TRUE, name |-> name, code |-> code, message |-> message]
\* a string passed where an error is expected
ErrorStr(message) ==
  [isError |-> FALSE, name |-> "", code |-> "", message |-> message]

\* the part of t before its first SEP fragment, and the part after it
BeforeSep(t) ==
  LET i == FindIndex([k \in 1..Len(t) |-> t[k] = SEP]) IN
  IF i = 0 THEN t ELSE SubSeq(t, 1, i - 1)
AfterSep(t) ==
  LET i == FindIndex([k \in 1..Len(t) |-> t[k] = SEP]) IN
  IF i = 0 THEN <<>> ELSE SubSeq(t, i + 1, Len(t))

\* the text handleError puts in the error notification
handleErrorMessage(errorSource) ==
  IF errorSource.isError THEN
    LET m == errorSource.message IN
    IF errorSource.name = "TimeoutError" \/ Includes(m, TimedOutFrags)
    THEN Str("The request timed out. The service might be busy or unavailable. Please try again.")
    ELSE IF Includes(m, NetworkErrorFrags)
    THEN Str("Network error. Please check your connection.")
    ELSE IF errorSource.code = "CredentialsError" \/ Includes(m, CredentialFrags)
    THEN Str("AWS credentials error. Please check configuration.")
    ELSE IF m # <<>> /\ Head(m) = LAMBDA_ERROR
    THEN LET lambdaMsg == Trim(Tail(m))
             part0 == BeforeSep(lambdaMsg)
             part1 == BeforeSep(AfterSep(lambdaMsg))
         IN Str("Function Error: ") \o
            (IF part1 # <<>> THEN part1
             ELSE IF part0 # <<>> THEN part0
             ELSE Str("Unknown Lambda issue."))
    ELSE m
  ELSE errorSource.message

(* ------------------- JSON documents, lambda responses ------------------ *)
\* a string, with the value JSON.parse gives for it (NotJson: it throws)
NotJson == [type |-> "SyntaxError"]
Undefined == [type |-> "undefined"]
Doc(raw, json) == [type |-> "string", raw |-> raw, json |-> json]
Obj(fields) == [type |-> "object", fields |-> fields]
Num(n) == [type |-> "number", n |-> n]
JStr(s) == [type |-> "string", raw |-> Str(s), json |-> NotJson]
EmptyDoc == [type |-> "string", raw |-> <<>>, json |-> NotJson]
\* the literal "{}"
EmptyObjDoc == Doc(Str("{}"), Obj(<<>>))

\* property access o.k
Get(o, k) ==
  IF o.type = "object" /\ k \in DOMAIN o.fields THEN o.fields[k] ELSE Undefined

Truthy(v) ==
  CASE v.type = "undefined" -> FALSE
    [] v.type = "string" -> v.raw # <<>>
    [] v.type = "number" -> v.n # 0
    [] OTHER -> TRUE

\* a || b
Or(a, b) == IF Truthy(a) THEN a ELSE b

\* the text of a value used where a string is expected
TextOf(v) ==
  CASE v.type = "string" -> v.raw
    [] v.type = "undefined" -> Str("undefined")
    [] OTHER -> Str("[object Object]")

Thrown(err) == [threw |-> TRUE, error |-> err, text |-> <<>>]
Answer(text) == [threw |-> FALSE, error |-> ErrorStr(<<>>), text |-> text]

INVALID_RESPONSE == Str("Received an invalid response from the service.")
NO_MEANINGFUL == Str("No meaningful response received.")

\* lines 516-530: the error a gateway envelope with status >= 400 raises
EnvelopeError(responsePayload) ==
  LET body == Get(responsePayload, "body")
      fallback == [type |-> "string",
                   raw |-> <<"Lambda invocation failed with status ",
                             ToString(Get(responsePayload, "statusCode").n)>>,
                   json |-> NotJson]
      bodyDoc == Or(body, EmptyObjDoc)
  IN IF bodyDoc.json = NotJson
     THEN ErrorObj("Error", "", TextOf(Or(body, fallback)))
     ELSE ErrorObj("Error", "",
            TextOf(Or(Get(bodyDoc.json, "error"),
                   Or(Get(bodyDoc.json, "message"), Or(body, fallback)))))

\* the try block, were the payload always taken as the direct answer
ParsePayloadTryDirect(payloadDoc) ==
  IF payloadDoc.json = NotJson
  THEN [threw |-> TRUE, error |-> ErrorObj("SyntaxError", "", Str("Unexpected token")),
        value |-> Undefined]
  ELSE [threw |-> FALSE, error |-> ErrorStr(<<>>), value |-> payloadDoc.json]

\* lines 505-535: the try block that parses the payload; it throws on text that
\* is not JSON and, at line 529, on an envelope with status >= 400
ParsePayloadTry(payloadDoc) ==
  IF payloadDoc.json = NotJson
  THEN [threw |-> TRUE, error |-> ErrorObj("SyntaxError", "", Str("Unexpected token")),
        value |-> Undefined]
  ELSE LET responsePayload == payloadDoc.json
           statusCode == Get(responsePayload, "statusCode")
           body == Get(responsePayload, "body")
       IN IF Truthy(statusCode) /\ body.type = "string"
          THEN IF statusCode.type = "number" /\ statusCode.n >= 400
               THEN [threw |-> TRUE, error |-> EnvelopeError(responsePayload),
                     value |-> Undefined]
               ELSE LET bodyDoc == Or(body, EmptyObjDoc) IN
                    IF bodyDoc.json = NotJson
                    THEN [threw |-> TRUE,
                          error |-> ErrorObj("SyntaxError", "", Str("Unexpected token")),
                          value |-> Undefined]
                    ELSE [threw |-> FALSE, error |-> ErrorStr(<<>>), value |-> bodyDoc.json]
          ELSE [threw |-> FALSE, error |-> ErrorStr(<<>>), value |-> responsePayload]

\* lines 505-543: the try block with its catch, which replaces whatever the try
\* block threw by the invalid-response error
ParsePayload(payloadDoc) ==
  LET tried == ParsePayloadTry(payloadDoc) IN
  IF tried.threw
  THEN [threw |-> TRUE, error |-> ErrorObj("Error", "", INVALID_RESPONSE), value |-> Undefined]
  ELSE tried

\* lines 474-496: the error raised for a response with FunctionError set
FunctionErrorOf(response) ==
  LET p == response.Payload
      errorPayload ==
        IF p.type = "string" /\ p.json # NotJson
        THEN TextOf(Or(Get(p.json, "errorMessage"),
                    Or(Get(p.json, "errorType"), JStr("{}"))))
        ELSE TextOf(Or(p, JStr("Could not parse error payload")))
  IN ErrorObj("Error", "",
       <<LAMBDA_ERROR, " ">> \o TextOf(response.FunctionError) \o <<SEP>> \o errorPayload)

\* lines 464-564: what the round trip yields, an answer text or a thrown error
RoundTrip(response) ==
  IF response.rejected THEN Thrown(response.error)
  ELSE IF Truthy(response.FunctionError) THEN Thrown(FunctionErrorOf(response))
  ELSE LET parsed == ParsePayload(Or(response.Payload, EmptyObjDoc)) IN
       IF parsed.threw THEN Thrown(parsed.error)
       ELSE Answer(TextOf(Or(Get(parsed.value, "response"),
                          Or(Get(parsed.value, "message"),
                             [type |-> "string", raw |-> NO_MEANINGFUL, json |-> NotJson]))))

\* fragments holding a code fence or a line that starts a list
MarkdownFrags == {"<code fence>", "<list item>"}
IsMarkdown(text) == Includes(text, MarkdownFrags)

Rejected(err) ==
  [rejected |-> TRUE, error |-> err, FunctionError |-> Undefined, Payload |-> Undefined]
Resolved(functionError, payload) ==
  [rejected |-> FALSE, error |-> ErrorStr(<<>>), FunctionError |-> functionError,
   Payload |-> payload]

\* direct JSON payloads
DirectHi == Resolved(Undefined, Doc(Str("{response:hi}"), Obj([response |-> JStr("hi")])))
DirectMessage == Resolved(Undefined, Doc(Str("{message:hello}"), Obj([message |-> JStr("hello")])))
DirectEmpty == Resolved(Undefined, EmptyObjDoc)
\* gateway envelopes
Envelope(status, body) ==
  Resolved(Undefined, Doc(<<"{statusCode:", ToString(status), ",body:">> \o body.raw \o <<"}">>,
                          Obj([statusCode |-> Num(status), body |-> body])))
EnvelopeHi == Envelope(200, Doc(Str("{response:hi}"), Obj([response |-> JStr("hi")])))
EnvelopeBoom == Envelope(500, Doc(Str("{error:boom}"), Obj([error |-> JStr("boom")])))
EnvelopeBad == Envelope(500, Doc(Str("{message:bad}"), Obj([message |-> JStr("bad")])))
EnvelopeRaw == Envelope(502, JStr("Bad Gateway"))
EnvelopeBare == Envelope(500, EmptyDoc)
Garbage == Resolved(Undefined, JStr("<html>"))
\* the function itself failed
Unhandled == Resolved(JStr("Unhandled"), Doc(Str("{errorMessage:oops}"),
                                           Obj([errorMessage |-> JStr("oops")])))
\* the transport failed
TimedOut == Rejected(ErrorObj("TimeoutError", "TimeoutError",
                              Str("Connection timed out after 30000ms")))
NetworkFailure == Rejected(ErrorObj("NetworkingError", "NetworkingError",
                                    Str("Network Failure")))

\* every shape of response the component distinguishes
AllResponses ==
  { DirectHi, DirectMessage, DirectEmpty, EnvelopeHi, EnvelopeBoom, EnvelopeBad,
    EnvelopeRaw, EnvelopeBare, Garbage, Unhandled, TimedOut, NetworkFailure,
    \* envelopes with a status below 400: a message field, an empty object
    \* and a body that is no JSON text
    Envelope(200, Doc(Str("{message:done}"), Obj([message |-> JStr("done")]))),
    Envelope(200, EmptyObjDoc),
    Envelope(200, JStr("<html>")) }
\* the responses drawn where the session list, not the payload, is under study
FewResponses == { DirectHi, TimedOut }

(* --------------------- localStorage item chatSessions ------------------ *)
\* getItem returns null
NoItem == [kind |-> "null"]
\* text JSON.parse rejects
BadItem == [kind |-> "text"]
\* JSON text of a value that is no array
NonArrayItem == [kind |-> "json", isArray |-> FALSE, items |-> <<>>]
\* JSON text of an array
ArrayItem(items) == [kind |-> "json", isArray |-> TRUE, items |-> items]

Has(entry, k) == k \in DOMAIN entry

\* lines 175-183: the objects JSON.stringify writes; a key whose value is
\* undefined is left out
Projection(sessions) ==
  LET saved(s) ==
        IF Len(s.messages) = 0
        THEN [id |-> s.id, name |-> s.name, timestamp |-> s.timestamp,
              messages |-> s.messages, isNew |-> TRUE]
        ELSE [id |-> s.id, name |-> s.name, timestamp |-> s.timestamp,
              messages |-> s.messages]
  IN SelectSeq([i \in 1..Len(sessions) |-> saved(sessions[i])], LAMBDA e : e.id # NoId)

\* lines 646-654: the sessions made of the parsed entries; uuid is the next
\* identifier uuidv4() returns
RECURSIVE NormalizeLoaded(_, _, _)
NormalizeLoaded(items, uuid, clock) ==
  IF items = <<>> THEN [sessions |-> <<>>, uuid |-> uuid]
  ELSE LET e == Head(items)
           hasId == Has(e, "id") /\ e.id # NoId
           s == [id |-> IF hasId THEN e.id ELSE uuid,
                 name |-> IF Has(e, "name") /\ e.name # <<>> THEN e.name ELSE Str("Chat"),
                 timestamp |-> IF Has(e, "timestamp") /\ e.timestamp # 0
                               THEN e.timestamp ELSE clock,
                 messages |-> IF Has(e, "messages") THEN e.messages ELSE <<>>,
                 isNew |-> Has(e, "messages") /\ Len(e.messages) = 0]
           rest == NormalizeLoaded(Tail(items), IF hasId THEN uuid ELSE uuid + 1, clock)
       IN [sessions |-> <<s>> \o rest.sessions, uuid |-> rest.uuid]

\* the clock when the component mounts
StartMs == 2 * THROTTLE_MS
\* identifiers of sessions persisted by an earlier run
OldId(k) == MaxUuid + k

HiMsgs ==
  << Message(OldId(3), "user", <<"h", "i">>, FALSE),
     Message(OldId(4), "aws", Str("hi"), FALSE) >>
\* an image an earlier run wrote: the older session first
TwoSessions ==
  Projection(<< [id |-> OldId(1), name |-> <<"h", "i">>, timestamp |-> StartMs - THROTTLE_MS,
                 messages |-> HiMsgs, isNew |-> FALSE],
                [id |-> OldId(2), name |-> NEW_CHAT, timestamp |-> StartMs - DEBOUNCE_MS,
                 messages |-> <<>>, isNew |-> TRUE] >>)

\* items that hold no session, an empty array and unparsable text, and one
\* that holds two
FreshItems == { ArrayItem(<<>>), BadItem }
RestoredItem == ArrayItem(TwoSessions)
OldIds == { OldId(k) : k \in 1..Len(TwoSessions) }
\* an entry of a stored array that is null: reading a property of it throws
NullEntry == [null |-> TRUE]
\* whatever the store may hold: nothing, unparsable text, a value that is no
\* array, an empty array, an image an earlier run wrote, and arrays with an
\* entry without any key, entries that lack keys, or a null entry
StoredItems ==
  { NoItem, BadItem, NonArrayItem, ArrayItem(<<>>), RestoredItem,
    ArrayItem(<< <<>> >>),
    ArrayItem(<< [id |-> OldId(1), messages |-> HiMsgs], [name |-> <<"h", "i">>] >>),
    ArrayItem(<< NullEntry >>),
    ArrayItem(<< TwoSessions[1], NullEntry >>) }
\* the inputs of handleSearch and the responses drawn where the session list,
\* not the text, is under study
FewTerms == { <<" ">>, <<" ", "h", "i", " ">> }

(* ------------------------------ telemetry ------------------------------ *)
Metrics(logEvents, errors, throttled) ==
  [logEvents |-> logEvents, errors |-> errors, throttled |-> throttled]
ZeroMetrics == Metrics(0, 0, 0)

\* Datapoints?.[0]?.Sum ?? 0
Sum0(data) == IF Len(data.Datapoints) > 0 THEN data.Datapoints[1].Sum ELSE 0

\* what the three getMetricStatistics calls of cycle c may return
MetricsData(c) ==
  { [Invocations |-> [Datapoints |-> <<>>], Errors |-> [Datapoints |-> <<>>],
     Throttles |-> [Datapoints |-> <<>>]],
    [Invocations |-> [Datapoints |-> <<[Sum |-> c]>>],
     Errors |-> [Datapoints |-> <<[Sum |-> 1]>>],
     Throttles |-> [Datapoints |-> <<>>]] }

\* line 362: the most events filterLogEvents is asked for
LOG_LIMIT == 20
\* what filterLogEvents of cycle c may return: no event, events with and
\* without a message, or as many events as the limit allows
LogData(c) ==
  { <<>>,
    << [message |-> <<" ", "START RequestId", " ">>], [timestamp |-> c] >>,
    [i \in 1..LOG_LIMIT |-> [message |-> <<"END RequestId", " ">>]] }

\* the errors the AWS SDK rejects a telemetry query with
TelemetryErrors == { NetworkFailure.error }

NOT_CONFIGURED_LOG == Str("Lambda function name not configured.")
NO_LOGS == Str("No recent logs found.")
ERROR_LOGS == Str("Error fetching logs.")
EMPTY_LOG == Str("Empty log message")

\* line 376: e.message?.trim() || "Empty log message"
LogLine(e) ==
  IF Has(e, "message") /\ Trim(e.message) # EmptyText THEN Trim(e.message) ELSE EMPTY_LOG

VARIABLES
  phase,             \* "init" before the mount effects ran, "ready", "unmounted"
  user,              \* useUser(): TRUE when a signed-in user is present
  lambdaFunction,    \* AWS_CONFIG.lambdaFunction is a non-empty name
  storage,           \* localStorage item "chatSessions"
  chatSessions, currentSessionId, messages, error, loading,
  sessionToDelete, showDeleteModal,
  timers,            \* queue of pending setTimeout(() => switchSession(..), 0), each
                     \* with the history of what scheduled it (origin)
  inflight,          \* lambda.invoke calls awaiting their response
  throttleWait,      \* ms until the throttled handleSearch invokes again
  persistWait,       \* ms until the pending debounced persist fires, -1: none
  now,               \* Date.now()
  nextUuid,          \* next identifier uuidv4() returns
  uuidLimit,         \* identifiers the run may draw (bounds the run)
  pollCycle,         \* number of poll cycles started (fetchAndSetData calls)
  metricsPending,    \* cycles whose metric queries have not settled
  logsPending,       \* cycles whose filterLogEvents query has not settled
  abortControllerRef, \* cycle whose AbortController the ref holds, 0: null
  aborted,           \* pending log fetches whose signal is aborted
  cloudWatchLogs, metrics,
  sinceCall,         \* history: ms since lambda.invoke was last called, capped
  sinceChange,       \* history: ms since setChatSessions last ran, capped
  lastWrite,         \* history: outcome of the last localStorage.setItem
  lastStep,          \* history: what the step before did, where a claim asks
  titleCall,         \* the last call of generateSessionTitle made by itself: its
                     \* argument and what each of the two components returns
  tsx,               \* the component of DebuggerChatbot.tsx: its state, its
                     \* pending effects, timers and requests (it shares the
                     \* localStorage item with the component of part_003)
  db,                \* the users collection of the server: clerkId -> chatHistory
  auth               \* the Auth component: its effect's request and the route shown

chatVars == <<chatSessions, currentSessionId, messages>>
\* what no handler, effect or callback of the component writes
envVars == <<user, lambdaFunction, uuidLimit, titleCall, tsx, db, auth>>
telemetry ==
  <<pollCycle, metricsPending, logsPending, abortControllerRef, aborted,
    cloudWatchLogs, metrics>>
vars ==
  <<phase, user, lambdaFunction, storage, chatSessions, currentSessionId, messages,
    error, loading, sessionToDelete, showDeleteModal, timers, inflight,
    throttleWait, persistWait, now, nextUuid, uuidLimit, telemetry, sinceCall,
    sinceChange, lastWrite, lastStep, titleCall, tsx, db, auth>>
\* what the component of part_003 alone reads and writes
componentVars ==
  <<phase, chatVars, error, loading, sessionToDelete, showDeleteModal, timers,
    inflight, throttleWait, persistWait, now, nextUuid, telemetry, sinceCall,
    sinceChange, lastWrite, lastStep>>

\* no call of generateSessionTitle by itself was made
NoTitleCall == [called |-> FALSE]

\* DebuggerChatbot.tsx lines 46-68: the useState defaults; found, acted,
\* errorAge are history
TsxConstructed ==
  [phase |-> "init", chatSessions |-> <<>>, currentSessionId |-> "", messages |-> <<>>,
   stale |-> {}, error |-> <<>>, expiries |-> <<>>, loading |-> FALSE,
   asks |-> {}, deleting |-> {}, uuid |-> 1,
   found |-> NoItem, acted |-> FALSE, errorAge |-> 0]

\* the state the component is constructed in: the useState defaults
Constructed ==
  /\ tsx = TsxConstructed
  /\ auth = [request |-> "none", delivered |-> FALSE, route |-> "/"]
  /\ phase = "init"
  /\ chatSessions = <<>>
  /\ currentSessionId = NoId
  /\ messages = <<>>
  /\ error = EmptyText
  /\ loading = FALSE
  /\ sessionToDelete = NoId
  /\ showDeleteModal = FALSE
  /\ timers = <<>>
  /\ inflight = {}
  /\ throttleWait = 0
  /\ persistWait = -1
  /\ now = StartMs
  /\ nextUuid = 1
  /\ pollCycle = 0
  /\ metricsPending = {}
  /\ logsPending = {}
  /\ abortControllerRef = 0
  /\ aborted = {}
  /\ cloudWatchLogs = <<>>
  /\ metrics = ZeroMetrics
  /\ sinceCall = THROTTLE_MS
  /\ sinceChange = DEBOUNCE_MS
  /\ lastWrite = "none"
  /\ lastStep = "none"
  /\ titleCall = NoTitleCall

\* identifiers still to be handed out, those pending answers will need kept back
CanAlloc(n) == (nextUuid - 1) + n + Cardinality(inflight) <= uuidLimit

\* switchSession, were it to keep the entry with the id it did not find
switchSessionKeeps(sessionId, allSessions) ==
  LET i == FindIndex([k \in 1..Len(allSessions) |-> allSessions[k].id = sessionId]) IN
  IF i # 0
  THEN [chatSessions |-> chatSessions, listSet |-> FALSE,
        currentSessionId |-> sessionId,
        messages |-> allSessions[i].messages,
        error |-> EmptyText, uuid |-> nextUuid]
  ELSE LET newSession == createNewSession(nextUuid, now) IN
       [chatSessions |-> <<newSession>> \o chatSessions,
        listSet |-> TRUE,
        currentSessionId |-> newSession.id,
        messages |-> <<>>,
        error |-> error, uuid |-> nextUuid + 1]

\* lines 151-170: the state switchSession(sessionId, allSessions) leaves
switchSession(sessionId, allSessions) ==
  LET i == FindIndex([k \in 1..Len(allSessions) |-> allSessions[k].id = sessionId]) IN
  IF i # 0
  THEN [chatSessions |-> chatSessions, listSet |-> FALSE,
        currentSessionId |-> sessionId,
        messages |-> allSessions[i].messages,
        error |-> EmptyText, uuid |-> nextUuid]
  ELSE LET newSession == createNewSession(nextUuid, now) IN
       [chatSessions |-> <<newSession>> \o SelectSeq(chatSessions, LAMBDA s : s.id # sessionId),
        listSet |-> TRUE,
        currentSessionId |-> newSession.id,
        messages |-> <<>>,
        error |-> error, uuid |-> nextUuid + 1]

\* the persist effect, were it to leave a pending debounced call in place
PersistEffectNoCancel(listSet, sessions) ==
  IF listSet /\ persistWait < 0
  THEN (IF Len(sessions) > 0 THEN DEBOUNCE_MS ELSE -1)
  ELSE persistWait

\* lines 678-687: the persist effect, run again whenever setChatSessions has
\* installed a new array: the pending debounced call is cancelled and, for a
\* non-empty list, a new one is scheduled
PersistEffect(listSet, sessions) ==
  IF listSet THEN (IF Len(sessions) > 0 THEN DEBOUNCE_MS ELSE -1) ELSE persistWait

\* history: the time since setChatSessions last ran
ChangeClock(listSet) == IF listSet THEN 0 ELSE sinceChange

\* lines 402-610, 720-725: handleSearch is built anew, and the old throttle
\* cancelled, whenever currentSessionId changes
ThrottleEffect(newCurrent, wait) ==
  IF newCurrent # currentSessionId THEN 0 ELSE wait

\* the load, were it to install what it read even where that is no session
LoadedStateNoFallback(item, uuid, clock) ==
  LET loaded == IF item.kind = "json" /\ item.isArray
                   /\ \A i \in 1..Len(item.items) : ~Has(item.items[i], "null")
                THEN NormalizeLoaded(item.items, uuid, clock)
                ELSE [sessions |-> <<>>, uuid |-> uuid]
      sorted == SortByTimestampDesc(loaded.sessions)
  IN [chatSessions |-> sorted,
      currentSessionId |-> IF sorted = <<>> THEN NoId ELSE sorted[1].id,
      messages |-> IF sorted = <<>> THEN <<>> ELSE sorted[1].messages,
      uuid |-> loaded.uuid]

\* the load, were it to keep the stored order of the sessions
LoadedStateUnsorted(item, uuid, clock) ==
  LET threw == \/ item.kind = "text"
               \/ /\ item.kind = "json" /\ item.isArray
                  /\ \E i \in 1..Len(item.items) : Has(item.items[i], "null")
      loaded == IF item.kind = "json" /\ item.isArray
                THEN NormalizeLoaded(item.items, uuid, clock)
                ELSE [sessions |-> <<>>, uuid |-> uuid]
  IN IF ~threw /\ Len(loaded.sessions) > 0
     THEN [chatSessions |-> loaded.sessions, currentSessionId |-> loaded.sessions[1].id,
           messages |-> loaded.sessions[1].messages, uuid |-> loaded.uuid]
     ELSE LET newSession == createNewSession(uuid, clock) IN
          [chatSessions |-> <<newSession>>, currentSessionId |-> newSession.id,
           messages |-> newSession.messages, uuid |-> uuid + 1]

\* lines 635-675: the list, the current session and the displayed messages
\* the load effect installs for the stored item
LoadedState(item, uuid, clock) ==
  \* JSON.parse throws on the text, s.id on a null entry: the catch block
  LET threw == \/ item.kind = "text"
               \/ /\ item.kind = "json" /\ item.isArray
                  /\ \E i \in 1..Len(item.items) : Has(item.items[i], "null")
      loaded == IF item.kind = "json" /\ item.isArray
                THEN NormalizeLoaded(item.items, uuid, clock)
                ELSE [sessions |-> <<>>, uuid |-> uuid]
  IN IF ~threw /\ Len(loaded.sessions) > 0
     THEN LET sorted == SortByTimestampDesc(loaded.sessions) IN
          [chatSessions |-> sorted, currentSessionId |-> sorted[1].id,
           messages |-> sorted[1].messages, uuid |-> loaded.uuid]
     ELSE LET newSession == createNewSession(uuid, clock) IN
          [chatSessions |-> <<newSession>>, currentSessionId |-> newSession.id,
           messages |-> newSession.messages, uuid |-> uuid + 1]

\* lines 633-676: the load effect of the mount
LoadSessions ==
  /\ phase = "init"
  /\ phase' = "ready"
  /\ LET r == LoadedState(storage, nextUuid, now) IN
     /\ chatSessions' = r.chatSessions
     /\ currentSessionId' = r.currentSessionId
     /\ messages' = r.messages
     /\ nextUuid' = r.uuid
  \* handleError in the catch sets the notification, switchSession clears it
  /\ error' = EmptyText
  /\ loading' = FALSE
  /\ persistWait' = PersistEffect(TRUE, chatSessions')
  /\ throttleWait' = 0
  /\ sinceChange' = 0
  /\ lastStep' = "none"
  /\ UNCHANGED <<envVars, storage, sessionToDelete, showDeleteModal,
                 timers, inflight, now, sinceCall, lastWrite>>

Ready == phase = "ready"
\* the user acts on the page once the zero-delay callbacks have run
UserTurn == Ready /\ timers = <<>>
\* lines 1155-1161: the backdrop of the confirmation dialog covers the page
PageTurn == UserTurn /\ ~showDeleteModal

\* lines 1058-1071: a session of the sidebar is clicked
SelectSession(sid) ==
  /\ PageTurn
  /\ sid \in Ids(chatSessions)
  /\ sid # currentSessionId
  /\ LET r == switchSession(sid, chatSessions) IN
     /\ chatSessions' = r.chatSessions
     /\ currentSessionId' = r.currentSessionId
     /\ messages' = r.messages
     /\ error' = r.error
     /\ nextUuid' = r.uuid
     /\ persistWait' = PersistEffect(r.listSet, r.chatSessions)
     /\ sinceChange' = ChangeClock(r.listSet)
     /\ throttleWait' = ThrottleEffect(r.currentSessionId, throttleWait)
  /\ lastStep' = "none"
  /\ UNCHANGED <<phase, envVars, storage, loading, sessionToDelete,
                 showDeleteModal, timers, inflight, now, telemetry, sinceCall, lastWrite>>

\* lines 215-221, 265: a zero-delay timeout runs its switchSession
RunTimer ==
  /\ Ready
  /\ timers # <<>>
  /\ LET t == Head(timers)
         r == switchSession(t.sessionId, t.allSessions)
     IN /\ r.listSet => CanAlloc(1)
        /\ chatSessions' = r.chatSessions
        /\ currentSessionId' = r.currentSessionId
        /\ messages' = r.messages
        /\ error' = r.error
        /\ nextUuid' = r.uuid
        /\ persistWait' = PersistEffect(r.listSet, r.chatSessions)
        /\ sinceChange' = ChangeClock(r.listSet)
        /\ throttleWait' = ThrottleEffect(r.currentSessionId, throttleWait)
  /\ timers' = Tail(timers)
  /\ lastStep' = Head(timers).origin
  /\ UNCHANGED <<phase, envVars, storage, loading, sessionToDelete,
                 showDeleteModal, inflight, now, telemetry, sinceCall, lastWrite>>

\* lines 151-170: switchSession is called with any id and any list
CallSwitchSession(sessionId, allSessions) ==
  /\ Ready
  /\ timers = <<>>
  /\ LET r == switchSession(sessionId, allSessions) IN
     /\ r.listSet => CanAlloc(1)
     /\ chatSessions' = r.chatSessions
     /\ currentSessionId' = r.currentSessionId
     /\ messages' = r.messages
     /\ error' = r.error
     /\ nextUuid' = r.uuid
     /\ persistWait' = PersistEffect(r.listSet, r.chatSessions)
     /\ sinceChange' = ChangeClock(r.listSet)
     /\ throttleWait' = ThrottleEffect(r.currentSessionId, throttleWait)
     /\ lastStep' = IF r.listSet THEN "switch, id not found" ELSE "switch, id found"
  /\ UNCHANGED <<phase, envVars, storage, loading, sessionToDelete,
                 showDeleteModal, timers, inflight, now, telemetry, sinceCall, lastWrite>>

\* lines 193-196
deleteChatSession(sid) ==
  /\ PageTurn
  /\ sid \in Ids(chatSessions)
  /\ sessionToDelete' = sid
  /\ showDeleteModal' = TRUE
  /\ lastStep' = "none"
  /\ UNCHANGED <<phase, envVars, storage, chatVars, error, loading, timers, inflight,
                 throttleWait, persistWait, now, nextUuid, telemetry, sinceCall,
                 sinceChange, lastWrite>>

\* lines 1163-1166, 1179-1182: the backdrop or Cancel is clicked
CancelDelete ==
  /\ UserTurn
  /\ showDeleteModal
  /\ sessionToDelete' = NoId
  /\ showDeleteModal' = FALSE
  /\ lastStep' = "none"
  /\ UNCHANGED <<phase, envVars, storage, chatVars, error, loading, timers, inflight,
                 throttleWait, persistWait, now, nextUuid, telemetry, sinceCall,
                 sinceChange, lastWrite>>

\* the updater, were the deletion of the current session to schedule no switch
DeleteUpdaterNoSwitch(prevSessions) ==
  [chatSessions |-> SelectSeq(prevSessions, LAMBDA s : s.id # sessionToDelete),
   timer |-> <<>>, uuid |-> nextUuid]

\* the updater, were the deferred switch to target the head of the remaining
\* list instead of the remaining session with the greatest timestamp
DeleteUpdaterUnsorted(prevSessions) ==
  LET remainingSessions == SelectSeq(prevSessions, LAMBDA s : s.id # sessionToDelete) IN
  IF sessionToDelete = currentSessionId
  THEN IF Len(remainingSessions) > 0
       THEN [chatSessions |-> remainingSessions,
             timer |-> <<[sessionId |-> remainingSessions[1].id,
                          allSessions |-> remainingSessions,
                          origin |-> "delete, sessions remain"]>>,
             uuid |-> nextUuid]
       ELSE LET newSession == createNewSession(nextUuid, now) IN
            [chatSessions |-> <<newSession>>,
             timer |-> <<[sessionId |-> newSession.id, allSessions |-> <<newSession>>,
                          origin |-> "delete, none remains"]>>,
             uuid |-> nextUuid + 1]
  ELSE [chatSessions |-> remainingSessions, timer |-> <<>>, uuid |-> nextUuid]

\* the updater, were it to schedule the switch whatever session is deleted
DeleteUpdaterSwitches(prevSessions) ==
  LET remainingSessions == SelectSeq(prevSessions, LAMBDA s : s.id # sessionToDelete) IN
  IF Len(remainingSessions) > 0
  THEN LET sortedSessions == SortByTimestampDesc(remainingSessions) IN
       [chatSessions |-> remainingSessions,
        timer |-> <<[sessionId |-> sortedSessions[1].id, allSessions |-> sortedSessions,
                     origin |-> "delete, sessions remain"]>>,
        uuid |-> nextUuid]
  ELSE LET newSession == createNewSession(nextUuid, now) IN
       [chatSessions |-> <<newSession>>,
        timer |-> <<[sessionId |-> newSession.id, allSessions |-> <<newSession>>,
                     origin |-> "delete, none remains"]>>,
        uuid |-> nextUuid + 1]

\* lines 205-226: the updater handleConfirmDelete passes to setChatSessions
DeleteUpdater(prevSessions) ==
  LET remainingSessions == SelectSeq(prevSessions, LAMBDA s : s.id # sessionToDelete) IN
  IF sessionToDelete = currentSessionId
  THEN IF Len(remainingSessions) > 0
       THEN LET sortedSessions == SortByTimestampDesc(remainingSessions) IN
            [chatSessions |-> remainingSessions,
             timer |-> <<[sessionId |-> sortedSessions[1].id, allSessions |-> sortedSessions,
                          origin |-> "delete, sessions remain"]>>,
             uuid |-> nextUuid]
       ELSE LET newSession == createNewSession(nextUuid, now) IN
            [chatSessions |-> <<newSession>>,
             timer |-> <<[sessionId |-> newSession.id, allSessions |-> <<newSession>>,
                          origin |-> "delete, none remains"]>>,
             uuid |-> nextUuid + 1]
  ELSE [chatSessions |-> remainingSessions, timer |-> <<>>, uuid |-> nextUuid]

\* lines 198-240: Delete is clicked in the confirmation dialog
handleConfirmDelete ==
  /\ UserTurn
  /\ showDeleteModal
  /\ sessionToDelete # NoId
  /\ LET r == DeleteUpdater(chatSessions) IN
     /\ r.uuid # nextUuid => CanAlloc(1)
     /\ chatSessions' = r.chatSessions
     /\ timers' = timers \o r.timer
     /\ nextUuid' = r.uuid
     /\ persistWait' = PersistEffect(TRUE, r.chatSessions)
  /\ sinceChange' = 0
  /\ sessionToDelete' = NoId
  /\ showDeleteModal' = FALSE
  /\ lastStep' = IF sessionToDelete = currentSessionId THEN "none" ELSE "delete, not current"
  /\ UNCHANGED <<phase, envVars, storage, currentSessionId, messages, error,
                 loading, inflight, throttleWait, now, telemetry, sinceCall, lastWrite>>

\* lines 243-258: the title of the outgoing session
RetitleUpdater(prev) ==
  [i \in 1..Len(prev) |->
     IF prev[i].id = currentSessionId /\ prev[i].isNew /\ Len(prev[i].messages) > 0
     THEN [prev[i] EXCEPT !.name = generateSessionTitle(prev[i].messages), !.isNew = FALSE]
     ELSE prev[i]]

\* lines 242-272: New Chat is clicked
handleNewChat ==
  /\ PageTurn
  /\ CanAlloc(1)
  /\ Len(chatSessions) < MaxSessions
  /\ LET newSession == createNewSession(nextUuid, now)
         updatedSessions == <<newSession>> \o RetitleUpdater(chatSessions)
     IN /\ chatSessions' = updatedSessions
        /\ timers' = Append(timers, [sessionId |-> newSession.id,
                                     allSessions |-> updatedSessions,
                                     origin |-> "new chat"])
        /\ persistWait' = PersistEffect(TRUE, updatedSessions)
  /\ nextUuid' = nextUuid + 1
  /\ sinceChange' = 0
  /\ lastStep' = "none"
  /\ UNCHANGED <<phase, envVars, storage, currentSessionId, messages, error,
                 loading, sessionToDelete, showDeleteModal, inflight, throttleWait, now,
                 telemetry, sinceCall, lastWrite>>

\* the append, were it to put the message in front of those of the session
PrependTo(sessions, sid, message) ==
  [i \in 1..Len(sessions) |->
     IF sessions[i].id = sid
     THEN [sessions[i] EXCEPT !.messages = <<message>> \o sessions[i].messages]
     ELSE sessions[i]]

\* the append, were the failure message left out of the stored session
AppendToNone(sessions, sid, message) ==
  [i \in 1..Len(sessions) |->
     IF sessions[i].id = sid /\ message.sender # "system"
     THEN [sessions[i] EXCEPT !.messages = Append(sessions[i].messages, message)]
     ELSE sessions[i]]

\* the append, were it to go to the session that is current on arrival
AppendToCurrent(sessions, sid, message) ==
  [i \in 1..Len(sessions) |->
     IF sessions[i].id = currentSessionId
     THEN [sessions[i] EXCEPT !.messages = Append(sessions[i].messages, message)]
     ELSE sessions[i]]

\* the append, were a session that is gone to be put back with the message
AppendToOrRestore(sessions, sid, message) ==
  IF \E i \in 1..Len(sessions) : sessions[i].id = sid
  THEN [i \in 1..Len(sessions) |->
          IF sessions[i].id = sid
          THEN [sessions[i] EXCEPT !.messages = Append(sessions[i].messages, message)]
          ELSE sessions[i]]
  ELSE Append(sessions, [id |-> sid, name |-> NEW_CHAT, timestamp |-> now,
                         messages |-> <<message>>, isNew |-> FALSE])

\* lines 567-576, 592-601: the message is appended to the session with that id
AppendTo(sessions, sid, message) ==
  [i \in 1..Len(sessions) |->
     IF sessions[i].id = sid
     THEN [sessions[i] EXCEPT !.messages = Append(sessions[i].messages, message)]
     ELSE sessions[i]]

\* the updater, were every user message to retitle the session
AskUpdaterRetitles(prevSessions, userMessage) ==
  [i \in 1..Len(prevSessions) |->
     IF prevSessions[i].id = currentSessionId
     THEN [prevSessions[i] EXCEPT
             !.messages = Append(prevSessions[i].messages, userMessage),
             !.name = generateSessionTitle(<<userMessage>>),
             !.isNew = FALSE,
             !.timestamp = now]
     ELSE prevSessions[i]]

\* the updater, were it to leave the isNew flag as it is
AskUpdaterKeepsNew(prevSessions, userMessage) ==
  [i \in 1..Len(prevSessions) |->
     LET session == prevSessions[i]
         updatedMessages == Append(session.messages, userMessage)
     IN IF session.id = currentSessionId
        THEN [session EXCEPT
                !.messages = updatedMessages,
                !.name = IF session.isNew /\ Len(session.messages) = 0
                         THEN generateSessionTitle(updatedMessages)
                         ELSE session.name,
                !.timestamp = now]
        ELSE session]

\* lines 430-450: the user message is appended to the current session
AskUpdater(prevSessions, userMessage) ==
  [i \in 1..Len(prevSessions) |->
     LET session == prevSessions[i]
         updatedMessages == Append(session.messages, userMessage)
     IN IF session.id = currentSessionId
        THEN [session EXCEPT
                !.messages = updatedMessages,
                !.name = IF session.isNew /\ Len(session.messages) = 0
                         THEN generateSessionTitle(updatedMessages)
                         ELSE session.name,
                !.isNew = FALSE,
                !.timestamp = now]
        ELSE session]

NOT_AUTHENTICATED == Str("User not authenticated. Please log in.")
NOT_CONFIGURED == Str("Lambda function not configured.")

\* the function, were it not to test that a function name is configured
handleSearchBodyUnconfigured(termToSearch) ==
  LET trimmedTerm == Trim(termToSearch) IN
  IF trimmedTerm = EmptyText
  THEN UNCHANGED <<chatVars, error, loading, inflight, nextUuid, persistWait, sinceCall,
                   sinceChange>>
  ELSE IF ~user
  THEN /\ error' = NOT_AUTHENTICATED
       /\ loading' = FALSE
       /\ UNCHANGED <<chatVars, inflight, nextUuid, persistWait, sinceCall, sinceChange>>
  ELSE LET userMessage == Message(nextUuid, "user", trimmedTerm, FALSE) IN
       /\ loading' = TRUE
       /\ error' = EmptyText
       /\ messages' = Append(messages, userMessage)
       /\ chatSessions' = AskUpdater(chatSessions, userMessage)
       /\ inflight' = inflight \cup {[sid |-> currentSessionId, prompt |-> userMessage.id]}
       /\ nextUuid' = nextUuid + 1
       /\ persistWait' = PersistEffect(TRUE, chatSessions')
       /\ sinceChange' = 0
       /\ sinceCall' = 0
       /\ UNCHANGED currentSessionId

\* lines 405-470: the function the throttle wraps, up to the await
handleSearchBody(termToSearch) ==
  LET trimmedTerm == Trim(termToSearch) IN
  IF trimmedTerm = EmptyText
  THEN UNCHANGED <<chatVars, error, loading, inflight, nextUuid, persistWait, sinceCall,
                   sinceChange>>
  ELSE IF ~user \/ ~lambdaFunction
  THEN /\ error' = IF ~user THEN NOT_AUTHENTICATED ELSE NOT_CONFIGURED
       /\ loading' = FALSE
       /\ UNCHANGED <<chatVars, inflight, nextUuid, persistWait, sinceCall, sinceChange>>
  ELSE LET userMessage == Message(nextUuid, "user", trimmedTerm, FALSE) IN
       /\ loading' = TRUE
       /\ error' = EmptyText
       /\ messages' = Append(messages, userMessage)
       /\ chatSessions' = AskUpdater(chatSessions, userMessage)
       /\ inflight' = inflight \cup {[sid |-> currentSessionId, prompt |-> userMessage.id]}
       /\ nextUuid' = nextUuid + 1
       /\ persistWait' = PersistEffect(TRUE, chatSessions')
       /\ sinceChange' = 0
       /\ sinceCall' = 0
       /\ UNCHANGED currentSessionId

\* lines 402-610, 970-982: Enter is pressed in the input, or Ask is clicked
handleSearch(termToSearch) ==
  /\ PageTurn
  /\ ~loading
  /\ CanAlloc(2)
  \* throttle(func, 1000, {leading: true, trailing: false}) drops the call
  \* that comes less than 1000 ms after the last one it let through
  /\ IF throttleWait > 0
     THEN UNCHANGED <<chatVars, error, loading, inflight, nextUuid, persistWait,
                      sinceCall, sinceChange, throttleWait>>
     ELSE /\ throttleWait' = THROTTLE_MS
          /\ handleSearchBody(termToSearch)
  /\ lastStep' = "none"
  /\ UNCHANGED <<phase, envVars, storage, sessionToDelete, showDeleteModal, timers, now,
                 telemetry, lastWrite>>

\* lines 581-590: the system message of a failed ask
ErrorMessageText(err) ==
  Str("Error: ") \o (IF err.message # EmptyText THEN err.message
                     ELSE Str("Could not get response."))

\* lines 472-604: the continuation of handleSearch after the await
AskSettles(call, response) ==
  /\ Ready
  /\ call \in inflight
  /\ LET r == RoundTrip(response)
         message == IF r.threw
                    THEN Message(nextUuid, "system", ErrorMessageText(r.error), FALSE)
                    ELSE Message(nextUuid, "aws", r.text, IsMarkdown(r.text))
     IN /\ messages' = Append(messages, message)
        /\ chatSessions' = AppendTo(chatSessions, call.sid, message)
        /\ error' = IF r.threw THEN handleErrorMessage(r.error) ELSE error
  /\ loading' = FALSE
  /\ inflight' = inflight \ {call}
  /\ nextUuid' = nextUuid + 1
  /\ persistWait' = PersistEffect(TRUE, chatSessions')
  /\ sinceChange' = 0
  /\ lastStep' = IF call.sid \in Ids(chatSessions) THEN "none" ELSE "answer, session deleted"
  /\ UNCHANGED <<phase, envVars, storage, currentSessionId, sessionToDelete,
                 showDeleteModal, timers, throttleWait, now, telemetry, sinceCall,
                 lastWrite>>

\* lines 1147: the notification is dismissed
DismissError ==
  /\ PageTurn
  /\ error # EmptyText
  /\ error' = EmptyText
  /\ lastStep' = "none"
  /\ UNCHANGED <<phase, envVars, storage, chatVars, loading, sessionToDelete,
                 showDeleteModal, timers, inflight, throttleWait, persistWait, now,
                 nextUuid, telemetry, sinceCall, sinceChange, lastWrite>>

STORAGE_FULL == Str("Could not save chat history. Storage might be full.")

\* lines 172-191, 680-684: the debounced persist fires; setItem may throw
persistSessions(quotaExceeded) ==
  /\ Ready
  /\ persistWait = 0
  /\ persistWait' = -1
  /\ IF quotaExceeded
     THEN /\ error' = handleErrorMessage(ErrorStr(STORAGE_FULL))
          /\ loading' = FALSE
          /\ lastWrite' = "failed"
          /\ UNCHANGED storage
     ELSE /\ storage' = ArrayItem(Projection(chatSessions))
          /\ lastWrite' = "ok"
          /\ UNCHANGED <<error, loading>>
  /\ lastStep' = "none"
  /\ UNCHANGED <<phase, envVars, chatVars, sessionToDelete, showDeleteModal, timers,
                 inflight, throttleWait, now, nextUuid, telemetry, sinceCall, sinceChange>>

\* the clock advances by one step; the zero-delay callbacks run first
Tick ==
  /\ Ready
  /\ timers = <<>>
  /\ now < StartMs + MaxTicks * StepMs
  /\ now' = now + StepMs
  /\ throttleWait' = Max(0, throttleWait - StepMs)
  /\ persistWait' = IF persistWait > 0 THEN Max(0, persistWait - StepMs) ELSE persistWait
  /\ sinceCall' = Min(THROTTLE_MS, sinceCall + StepMs)
  /\ sinceChange' = Min(DEBOUNCE_MS, sinceChange + StepMs)
  /\ lastStep' = "none"
  /\ UNCHANGED <<phase, envVars, storage, chatVars, error, loading, sessionToDelete,
                 showDeleteModal, timers, inflight, nextUuid, telemetry, lastWrite>>

\* lines 685, 713-717, 721-724: the cleanups of the effects; nothing the
\* component does afterwards changes its state
Unmount ==
  /\ Ready
  /\ phase' = "unmounted"
  /\ persistWait' = -1
  /\ throttleWait' = 0
  /\ aborted' = aborted \cup (logsPending \cap {abortControllerRef})
  /\ lastStep' = "none"
  /\ UNCHANGED <<envVars, storage, chatVars, error, loading, sessionToDelete,
                 showDeleteModal, timers, inflight, now, nextUuid, pollCycle,
                 metricsPending, logsPending, abortControllerRef, cloudWatchLogs,
                 metrics, sinceCall, sinceChange, lastWrite>>

\* lines 697-710, 274-280, 347-355: fetchAndSetData starts a poll cycle
StartPoll ==
  LET c == pollCycle + 1 IN
  /\ pollCycle' = c
  /\ IF ~lambdaFunction
     THEN /\ metrics' = ZeroMetrics
          /\ cloudWatchLogs' = <<NOT_CONFIGURED_LOG>>
          /\ UNCHANGED <<metricsPending, logsPending, abortControllerRef, aborted>>
     ELSE /\ metricsPending' = metricsPending \cup {c}
          /\ aborted' = aborted \cup (logsPending \cap {abortControllerRef})
          /\ abortControllerRef' = c
          /\ logsPending' = logsPending \cup {c}
          /\ UNCHANGED <<metrics, cloudWatchLogs>>

\* the effects of the mount: lines 633-676 and 695-711
Mount == LoadSessions /\ StartPoll

\* line 711: the interval fires
PollInterval ==
  /\ Ready
  /\ pollCycle < MaxPolls
  /\ StartPoll
  /\ lastStep' = "none"
  /\ UNCHANGED <<phase, envVars, storage, chatVars, error, loading, sessionToDelete,
                 showDeleteModal, timers, inflight, throttleWait, persistWait, now,
                 nextUuid, sinceCall, sinceChange, lastWrite>>

\* lines 298-335, 701: the metric queries of cycle c succeed
MetricsArrive(c, data) ==
  /\ Ready
  /\ c \in metricsPending
  /\ metricsPending' = metricsPending \ {c}
  /\ metrics' = Metrics(Sum0(data.Invocations), Sum0(data.Errors), Sum0(data.Throttles))
  /\ lastStep' = "none"
  /\ UNCHANGED <<phase, envVars, storage, chatVars, error, loading, sessionToDelete,
                 showDeleteModal, timers, inflight, throttleWait, persistWait, now,
                 nextUuid, pollCycle, logsPending, abortControllerRef, aborted,
                 cloudWatchLogs, sinceCall, sinceChange, lastWrite>>

\* lines 336-344, 701: a metric query of cycle c fails
MetricsFail(c, err) ==
  /\ Ready
  /\ c \in metricsPending
  /\ metricsPending' = metricsPending \ {c}
  /\ error' = handleErrorMessage(err)
  /\ loading' = FALSE
  /\ metrics' = ZeroMetrics
  /\ lastStep' = "none"
  /\ UNCHANGED <<phase, envVars, storage, chatVars, sessionToDelete,
                 showDeleteModal, timers, inflight, throttleWait, persistWait, now,
                 nextUuid, pollCycle, logsPending, abortControllerRef, aborted,
                 cloudWatchLogs, sinceCall, sinceChange, lastWrite>>

\* the success, were the lines added to those displayed before
LogsArriveAppends(c, events) ==
  /\ Ready
  /\ c \in logsPending
  /\ logsPending' = logsPending \ {c}
  /\ aborted' = aborted \ {c}
  /\ IF c \in aborted
     THEN UNCHANGED cloudWatchLogs
     ELSE LET logs == [i \in 1..Len(events) |-> LogLine(events[i])] IN
          cloudWatchLogs' = IF Len(logs) = 0 THEN <<NO_LOGS>> ELSE cloudWatchLogs \o logs
  /\ lastStep' = "none"
  /\ UNCHANGED <<phase, envVars, storage, chatVars, error, loading, sessionToDelete,
                 showDeleteModal, timers, inflight, throttleWait, persistWait, now,
                 nextUuid, pollCycle, metricsPending, abortControllerRef, metrics,
                 sinceCall, sinceChange, lastWrite>>

\* lines 366-383: filterLogEvents of cycle c resolves
LogsArrive(c, events) ==
  /\ Ready
  /\ c \in logsPending
  /\ logsPending' = logsPending \ {c}
  /\ aborted' = aborted \ {c}
  /\ IF c \in aborted
     THEN UNCHANGED cloudWatchLogs
     ELSE LET logs == [i \in 1..Len(events) |-> LogLine(events[i])] IN
          cloudWatchLogs' = IF Len(logs) = 0 THEN <<NO_LOGS>> ELSE logs
  /\ lastStep' = "none"
  /\ UNCHANGED <<phase, envVars, storage, chatVars, error, loading, sessionToDelete,
                 showDeleteModal, timers, inflight, throttleWait, persistWait, now,
                 nextUuid, pollCycle, metricsPending, abortControllerRef, metrics,
                 sinceCall, sinceChange, lastWrite>>

\* the rejection, were a failed telemetry query to leave the ask busy
LogsFailBusy(c, err) ==
  /\ Ready
  /\ c \in logsPending
  /\ logsPending' = logsPending \ {c}
  /\ aborted' = aborted \ {c}
  /\ error' = handleErrorMessage(err)
  /\ loading' = TRUE
  /\ cloudWatchLogs' = <<ERROR_LOGS>>
  /\ lastStep' = "none"
  /\ UNCHANGED <<phase, envVars, storage, chatVars, sessionToDelete,
                 showDeleteModal, timers, inflight, throttleWait, persistWait, now,
                 nextUuid, pollCycle, metricsPending, abortControllerRef, metrics,
                 sinceCall, sinceChange, lastWrite>>

\* lines 384-399: filterLogEvents of cycle c rejects; the SDK was never given
\* the signal, so its error is no AbortError
LogsFail(c, err) ==
  /\ Ready
  /\ c \in logsPending
  /\ logsPending' = logsPending \ {c}
  /\ aborted' = aborted \ {c}
  /\ IF err.name # "AbortError" /\ err.message # Str("New log request started")
     THEN /\ error' = handleErrorMessage(err)
          /\ loading' = FALSE
          /\ cloudWatchLogs' = <<ERROR_LOGS>>
     ELSE UNCHANGED <<error, loading, cloudWatchLogs>>
  /\ lastStep' = "none"
  /\ UNCHANGED <<phase, envVars, storage, chatVars, sessionToDelete,
                 showDeleteModal, timers, inflight, throttleWait, persistWait, now,
                 nextUuid, pollCycle, metricsPending, abortControllerRef, metrics,
                 sinceCall, sinceChange, lastWrite>>

(* ---------------- the component of DebuggerChatbot.tsx ---------------- *)
\* the sessions of this component are modelled without the timestamp and the
\* search history, which none of its operations reads
\* line 100: the delay of the timer that clears the notification
ERROR_MS == 10000

\* lines 70-78
createNewSessionTsx(uuid) ==
  [id |-> ToString(uuid), name |-> NEW_CHAT, messages |-> <<>>, isNew |-> TRUE]

\* lines 89-101: handleError sets the notification and starts a timer that
\* clears it; t is the component's state
handleErrorTsx(t, errorSource) ==
  LET errorMessage ==
        IF ~errorSource.isError THEN Str("An unexpected error occurred")
        ELSE IF errorSource.name = "TimeoutError"
        THEN Str("Request timed out. Please try again.")
        ELSE errorSource.message
  IN [t EXCEPT !.error = errorMessage, !.errorAge = 0,
               !.expiries = Append(@, ERROR_MS)]

\* lines 133-139: switchSession looks the id up in the list of the render it
\* was created in
switchSessionTsx(t, sessionId, renderedSessions) ==
  LET i == FindIndex([k \in 1..Len(renderedSessions) |->
                        renderedSessions[k].id = sessionId])
  IN [t EXCEPT !.currentSessionId = sessionId,
               !.messages = IF i = 0 THEN <<>> ELSE renderedSessions[i].messages]

\* an image the component wrote in an earlier run: the first session has
\* messages
TsxTwoSessions ==
  << [id |-> "a", name |-> <<"h", "i">>, isNew |-> FALSE,
      messages |-> << Message("m1", "user", <<"h", "i">>, FALSE),
                      Message("m2", "aws", Str("hi"), FALSE) >>],
     [id |-> "b", name |-> NEW_CHAT, isNew |-> TRUE, messages |-> <<>>] >>

\* lines 376-423: the first commit. The load effect reads the item and sets
\* the list, then calls the switchSession of the first render, whose list is
\* empty; the sync effect of the first render finds no session with id "";
\* the persist effect writes the list of the first render, the empty one
TsxMount ==
  /\ tsx.phase = "init"
  /\ LET threw == storage.kind = "text"
         parsed == IF storage.kind = "json" /\ storage.isArray THEN storage.items ELSE <<>>
         newSession == createNewSessionTsx(tsx.uuid)
         loaded == IF Len(parsed) > 0 THEN parsed ELSE <<newSession>>
         switched == switchSessionTsx(
                       [tsx EXCEPT !.phase = "ready", !.chatSessions = loaded,
                                   !.uuid = IF Len(parsed) > 0 THEN @ ELSE @ + 1,
                                   !.stale = {"sync", "persist"}, !.found = storage],
                       loaded[1].id, tsx.chatSessions)
     IN tsx' = IF threw
               THEN handleErrorTsx(switched, ErrorStr(Str("Failed to load chat history")))
               ELSE switched
  /\ storage' = ArrayItem(tsx.chatSessions)
  /\ UNCHANGED <<componentVars, user, lambdaFunction, uuidLimit, titleCall, db, auth>>

\* lines 403-423: the effects of a later commit. The sync effect copies the
\* displayed messages into the current session, which changes the list; the
\* persist effect writes the list of the render it belongs to
TsxEffects ==
  /\ tsx.phase = "ready"
  /\ tsx.stale # {}
  /\ tsx' = [tsx EXCEPT
       !.chatSessions =
          IF "sync" \in tsx.stale
          THEN [i \in 1..Len(tsx.chatSessions) |->
                  LET session == tsx.chatSessions[i] IN
                  IF session.id = tsx.currentSessionId
                  THEN [session EXCEPT
                          !.messages = tsx.messages,
                          !.isNew = IF Len(tsx.messages) > 0 THEN FALSE ELSE @]
                  ELSE session]
          ELSE @,
       !.stale = IF "sync" \in tsx.stale THEN {"persist"} ELSE {}]
  /\ storage' = IF "persist" \in tsx.stale THEN ArrayItem(tsx.chatSessions) ELSE storage
  /\ UNCHANGED <<componentVars, user, lambdaFunction, uuidLimit, titleCall, db, auth>>

\* the user acts once the effects of the last commit have run
TsxTurn == tsx.phase = "ready" /\ tsx.stale = {}

\* identifiers still to be handed out, those pending requests will need kept
\* back
TsxCanAlloc(n) ==
  (tsx.uuid - 1) + n + Cardinality(tsx.asks)
    + Cardinality({ d \in tsx.deleting : d.sessionId = d.currentSessionId }) <= uuidLimit

\* few requests are pending at a time
TsxCanSend == Cardinality(tsx.asks) + Cardinality(tsx.deleting) < MaxPending

\* a request fails only while few timers of handleError are pending
TsxMayFail(delivered) == delivered \/ Len(tsx.expiries) < MaxTimers

\* line 679: a session of the sidebar is clicked
TsxSwitchSession(sessionId) ==
  /\ TsxTurn
  /\ sessionId # tsx.currentSessionId
  /\ tsx' = [switchSessionTsx(tsx, sessionId, tsx.chatSessions) EXCEPT
               !.stale = {"sync"}, !.acted = TRUE]
  /\ UNCHANGED <<componentVars, storage, user, lambdaFunction, uuidLimit, titleCall, db, auth>>

\* lines 181-203: New Chat is clicked
TsxNewChat ==
  /\ TsxTurn
  /\ TsxCanAlloc(1)
  /\ LET newSession == createNewSessionTsx(tsx.uuid)
         titled == [i \in 1..Len(tsx.chatSessions) |->
                      LET session == tsx.chatSessions[i] IN
                      IF session.id = tsx.currentSessionId /\ Len(session.messages) > 0
                      THEN [session EXCEPT
                              !.name = generateSessionTitleTsx(session.messages),
                              !.isNew = FALSE]
                      ELSE session]
     IN tsx' = [switchSessionTsx(tsx, newSession.id, tsx.chatSessions) EXCEPT
                  !.chatSessions = <<newSession>> \o titled,
                  !.uuid = @ + 1, !.stale = {"sync", "persist"}, !.acted = TRUE]
  /\ UNCHANGED <<componentVars, storage, user, lambdaFunction, uuidLimit, titleCall, db, auth>>

\* user.id: the Clerk id of the signed-in user
userId == "user_1"

\* userRoutes.js lines 7-34: POST /register on the users collection
Register(users, clerkId) ==
  IF \E u \in users : u.clerkId = clerkId
  THEN [status |-> 400, users |-> users]
  ELSE [status |-> 201,
        users |-> users \cup {[clerkId |-> clerkId, chatHistory |-> <<>>]}]

\* userRoutes.js lines 65-81: POST /chat pushes the message on the history of
\* the user with the Clerk id of the body
PostChat(users, bodyUserId, message) ==
  IF \E u \in users : u.clerkId = bodyUserId
  THEN [status |-> 201,
        users |-> { IF u.clerkId = bodyUserId
                    THEN [u EXCEPT !.chatHistory = Append(@, message)]
                    ELSE u : u \in users }]
  ELSE [status |-> 404, users |-> users]

\* userRoutes.js lines 133-148: DELETE /chat/:userId empties the history of
\* the user with the Clerk id of the path
DeleteChat(users, paramUserId) ==
  IF \E u \in users : u.clerkId = paramUserId
  THEN [status |-> 200,
        users |-> { IF u.clerkId = paramUserId
                    THEN [u EXCEPT !.chatHistory = <<>>]
                    ELSE u : u \in users }]
  ELSE [status |-> 404, users |-> users]

\* lines 298-374: the throttled function runs on a term that is not blank.
\* The Enter key submits while an earlier request is pending (line 620)
TsxHandleSearch(term) ==
  /\ TsxTurn
  /\ TsxCanAlloc(2)
  /\ TsxCanSend
  /\ Trim(term) # EmptyText
  /\ LET newMessage == Message(ToString(tsx.uuid), "user", term, FALSE)
     IN tsx' = [tsx EXCEPT
                  !.loading = TRUE, !.error = EmptyText,
                  !.messages = Append(@, newMessage),
                  !.uuid = @ + 1,
                  !.asks = @ \cup {[stage |-> IF user THEN "save" ELSE "invoke",
                                    sessionId |-> tsx.currentSessionId,
                                    message |-> newMessage]},
                  !.stale = {"sync"}, !.acted = TRUE]
  /\ UNCHANGED <<componentVars, storage, user, lambdaFunction, uuidLimit, titleCall, db, auth>>

\* lines 316-337: the request that saves the message settles. The stored
\* message has the fields of the schema (User.js lines 3-8); sessionId is
\* history, the route does not store it
TsxSaveSettles(ask, delivered) ==
  /\ TsxTurn
  /\ TsxMayFail(delivered)
  /\ ask.stage = "save"
  /\ LET response == PostChat(db, userId,
                         [sender |-> ask.message.sender, text |-> ask.message.text,
                          isMarkdown |-> FALSE, sessionId |-> ask.sessionId])
         waiting == [tsx EXCEPT !.asks = (@ \ {ask}) \cup {[ask EXCEPT !.stage = "invoke"]}]
     IN /\ db' = IF delivered THEN response.users ELSE db
        /\ tsx' = IF ~delivered
                  THEN handleErrorTsx(waiting, ErrorObj("TypeError", "", Str("Failed to fetch")))
                  ELSE IF response.status \notin 200..299
                  THEN handleErrorTsx(waiting, ErrorObj("Error", "", Str("Failed to save message")))
                  ELSE waiting
  /\ UNCHANGED <<componentVars, storage, user, lambdaFunction, uuidLimit, titleCall, auth>>

\* lines 338-371: the invocation settles, with an answer or with an error
TsxAnswer(ask, answered) ==
  /\ TsxTurn
  /\ TsxMayFail(answered)
  /\ ask.stage = "invoke"
  /\ LET responseMessage == Message(ToString(tsx.uuid), "aws", Str("ok"), FALSE)
         settled == [tsx EXCEPT !.asks = @ \ {ask}, !.loading = FALSE]
     IN tsx' = IF answered
               THEN [settled EXCEPT !.messages = Append(@, responseMessage),
                                    !.uuid = @ + 1, !.stale = {"sync"}]
               ELSE handleErrorTsx(settled,
                                   ErrorObj("Error", "", Str("Lambda invocation failed")))
  /\ UNCHANGED <<componentVars, storage, user, lambdaFunction, uuidLimit, titleCall, db, auth>>

\* lines 161-171: the local half of deleteChatSession, with the current id
\* and the list of the render the handler was created in
deleteLocallyTsx(t, sessionId, renderedId, renderedSessions) ==
  LET remaining == SelectSeq(t.chatSessions, LAMBDA session : session.id # sessionId)
      newSession == createNewSessionTsx(t.uuid)
  IN IF sessionId = renderedId
     THEN [switchSessionTsx(t, newSession.id, renderedSessions) EXCEPT
             !.chatSessions = <<newSession>> \o remaining,
             !.uuid = @ + 1, !.stale = {"sync", "persist"}]
     ELSE [t EXCEPT !.chatSessions = remaining, !.stale = {"persist"}]

\* lines 141-160: the deletion of a session is confirmed; a signed-in user's
\* request is sent first
TsxDeleteChatSession(sessionId) ==
  /\ TsxTurn
  /\ sessionId = tsx.currentSessionId => TsxCanAlloc(1)
  /\ user => TsxCanSend
  /\ \A d \in tsx.deleting : d.sessionId # sessionId
  /\ tsx' = IF user
            THEN [tsx EXCEPT !.deleting = @ \cup {[sessionId |-> sessionId,
                                                  currentSessionId |-> tsx.currentSessionId,
                                                  chatSessions |-> tsx.chatSessions]},
                             !.acted = TRUE]
            ELSE [deleteLocallyTsx(tsx, sessionId, tsx.currentSessionId, tsx.chatSessions)
                    EXCEPT !.acted = TRUE]
  /\ UNCHANGED <<componentVars, storage, user, lambdaFunction, uuidLimit, titleCall, db, auth>>

\* lines 150-178: the DELETE request settles; fetch rejects only when the
\* server is not reached
TsxDeleteSettles(d, delivered) ==
  /\ TsxTurn
  /\ TsxMayFail(delivered)
  /\ LET settled == [tsx EXCEPT !.deleting = @ \ {d}]
     IN /\ db' = IF delivered THEN DeleteChat(db, d.sessionId).users ELSE db
        /\ tsx' = IF delivered
                  THEN deleteLocallyTsx(settled, d.sessionId, d.currentSessionId, d.chatSessions)
                  ELSE handleErrorTsx(settled, ErrorObj("TypeError", "", Str("Failed to fetch")))
  /\ UNCHANGED <<componentVars, storage, user, lambdaFunction, uuidLimit, titleCall, auth>>

\* line 100: a timer of handleError fires
TsxExpire ==
  /\ TsxTurn
  /\ tsx.expiries # <<>>
  /\ Head(tsx.expiries) = 0
  /\ tsx' = [tsx EXCEPT !.error = EmptyText, !.expiries = Tail(@)]
  /\ UNCHANGED <<componentVars, storage, user, lambdaFunction, uuidLimit, titleCall, db, auth>>

\* half the delay of the timers passes
TsxTick ==
  /\ TsxTurn
  /\ tsx.expiries # <<>>
  /\ \A i \in 1..Len(tsx.expiries) : tsx.expiries[i] > 0
  /\ tsx' = [tsx EXCEPT
               !.expiries = [i \in 1..Len(@) |-> @[i] - ERROR_MS \div 2],
               !.errorAge = Min(@ + ERROR_MS \div 2, ERROR_MS)]
  /\ UNCHANGED <<componentVars, storage, user, lambdaFunction, uuidLimit, titleCall, db, auth>>

(* ------------------------- the Auth component ------------------------- *)
\* part_004 lines 1016-1049: the effect of a loaded, signed-in user sends the
\* registration
AuthEffect ==
  /\ user
  /\ auth.request = "none"
  /\ auth' = [auth EXCEPT !.request = "pending"]
  /\ UNCHANGED <<componentVars, storage, user, lambdaFunction, uuidLimit, titleCall, tsx, db>>

\* part_004 lines 1039-1047: the registration settles; a response that is not
\* ok throws, and the catch only logs
RegisterSettles(delivered) ==
  /\ auth.request = "pending"
  /\ LET response == Register(db, userId)
     IN /\ db' = IF delivered THEN response.users ELSE db
        /\ auth' = [request |-> "settled", delivered |-> delivered,
                    route |-> IF delivered /\ response.status \in 200..299
                              THEN "/debugger" ELSE auth.route]
  /\ UNCHANGED <<componentVars, storage, user, lambdaFunction, uuidLimit, titleCall, tsx>>

(* --------------------------- specifications --------------------------- *)
\* the session manager and the ask, on a clock; the telemetry queries of the
\* mount stay pending and the debounced write does not fire
Init ==
  /\ Constructed
  /\ db = {}
  /\ user \in BOOLEAN
  /\ lambdaFunction \in BOOLEAN
  /\ \/ storage = NoItem /\ uuidLimit = MaxUuid
     \/ storage \in FreshItems \cup { RestoredItem } /\ uuidLimit = MaxUuidRestored

Next ==
  \/ Mount
  \/ \E sid \in Ids(chatSessions) : SelectSession(sid)
  \/ RunTimer
  \/ \E sid \in Ids(chatSessions) : deleteChatSession(sid)
  \/ CancelDelete
  \/ handleConfirmDelete
  \/ handleNewChat
  \/ \E term \in FewTerms : handleSearch(term)
  \/ \E call \in inflight, response \in FewResponses : AskSettles(call, response)
  \/ Tick

Spec == Init /\ [][Next]_vars

\* the throttle of the ask: two persisted sessions, a signed-in user, a
\* configured function
InitThrottle ==
  /\ Constructed
  /\ db = {}
  /\ user = TRUE
  /\ lambdaFunction = TRUE
  /\ storage = RestoredItem
  /\ uuidLimit = MaxUuidThrottle

NextThrottle ==
  \/ Mount
  \/ \E sid \in Ids(chatSessions) : SelectSession(sid)
  \/ handleNewChat
  \/ RunTimer
  \/ \E term \in FewTerms : handleSearch(term)
  \/ \E call \in inflight, response \in FewResponses : AskSettles(call, response)
  \/ Tick

SpecThrottle == InitThrottle /\ [][NextThrottle]_vars

\* the remote query gateway: every prompt and every response, one session
InitGateway ==
  /\ Constructed
  /\ db = {}
  /\ user \in BOOLEAN
  /\ lambdaFunction \in BOOLEAN
  /\ storage = NoItem
  /\ uuidLimit = MaxUuidGateway

NextGateway ==
  \/ Mount
  \/ \E term \in Terms : handleSearch(term)
  \/ \E call \in inflight, response \in AllResponses : AskSettles(call, response)
  \/ DismissError
  \/ Tick

SpecGateway == InitGateway /\ [][NextGateway]_vars

\* the telemetry poller beside one ask
InitTelemetry ==
  /\ Constructed
  /\ db = {}
  /\ user = TRUE
  /\ lambdaFunction \in BOOLEAN
  /\ storage = NoItem
  /\ uuidLimit = MaxUuidTelemetry

NextTelemetry ==
  \/ Mount
  \/ PollInterval
  \/ \E c \in metricsPending : \E data \in MetricsData(c) : MetricsArrive(c, data)
  \/ \E c \in metricsPending, err \in TelemetryErrors : MetricsFail(c, err)
  \/ \E c \in logsPending : \E events \in LogData(c) : LogsArrive(c, events)
  \/ \E c \in logsPending, err \in TelemetryErrors : LogsFail(c, err)
  \/ \E term \in FewTerms : handleSearch(term)
  \/ \E call \in inflight, response \in FewResponses : AskSettles(call, response)
  \/ Unmount

SpecTelemetry == InitTelemetry /\ [][NextTelemetry]_vars

\* the debounced write of the session list
InitPersist ==
  /\ Constructed
  /\ db = {}
  /\ user = TRUE
  /\ lambdaFunction = TRUE
  /\ storage \in { NoItem, RestoredItem }
  /\ uuidLimit = MaxUuidPersist

NextPersist ==
  \/ Mount
  \/ handleNewChat
  \/ RunTimer
  \/ \E term \in FewTerms : handleSearch(term)
  \/ \E call \in inflight, response \in FewResponses : AskSettles(call, response)
  \/ \E quotaExceeded \in BOOLEAN : persistSessions(quotaExceeded)
  \/ Tick
  \/ Unmount

SpecPersist == InitPersist /\ [][NextPersist]_vars

\* the ask with every response, beside the session operations, from two
\* persisted sessions and without a clock
InitAsk ==
  /\ Constructed
  /\ db = {}
  /\ user = TRUE
  /\ lambdaFunction = TRUE
  /\ storage = RestoredItem
  /\ uuidLimit = MaxUuidAsk

NextAsk ==
  \/ Mount
  \/ \E sid \in Ids(chatSessions) : SelectSession(sid)
  \/ RunTimer
  \/ \E sid \in Ids(chatSessions) : deleteChatSession(sid)
  \/ CancelDelete
  \/ handleConfirmDelete
  \/ handleNewChat
  \/ \E term \in Terms : handleSearch(term)
  \/ \E call \in inflight, response \in AllResponses : AskSettles(call, response)

SpecAsk == InitAsk /\ [][NextAsk]_vars

\* the session store, its debounced write included, from two persisted
\* sessions
InitStore ==
  /\ Constructed
  /\ db = {}
  /\ user = TRUE
  /\ lambdaFunction = TRUE
  /\ storage = RestoredItem
  /\ uuidLimit = MaxUuidStore

NextStore ==
  \/ Mount
  \/ \E sid \in Ids(chatSessions) : SelectSession(sid)
  \/ RunTimer
  \/ \E sid \in Ids(chatSessions) : deleteChatSession(sid)
  \/ CancelDelete
  \/ handleConfirmDelete
  \/ handleNewChat
  \/ \E term \in FewTerms : handleSearch(term)
  \/ \E call \in inflight, response \in FewResponses : AskSettles(call, response)
  \/ Tick
  \/ persistSessions(FALSE)

SpecStore == InitStore /\ [][NextStore]_vars

\* the isNew flag of the sessions: whatever the store may hold, then asks, new
\* chats and switches
InitFlags ==
  /\ Constructed
  /\ db = {}
  /\ user = TRUE
  /\ lambdaFunction = TRUE
  /\ storage \in StoredItems
  /\ uuidLimit = MaxUuidFlags

NextFlags ==
  \/ Mount
  \/ \E sid \in Ids(chatSessions) : SelectSession(sid)
  \/ handleNewChat
  \/ RunTimer
  \/ \E term \in FewTerms : handleSearch(term)
  \/ \E call \in inflight, response \in FewResponses : AskSettles(call, response)

SpecFlags == InitFlags /\ [][NextFlags]_vars

\* the component of DebuggerChatbot.tsx with the server behind it
InitTsx ==
  /\ Constructed
  /\ db \in { {}, {[clerkId |-> userId, chatHistory |-> <<>>]} }
  /\ user \in BOOLEAN
  /\ lambdaFunction = TRUE
  /\ storage \in { NoItem, ArrayItem(TsxTwoSessions) }
  /\ uuidLimit = MaxUuidTsx

NextTsx ==
  \/ TsxMount
  \/ TsxEffects
  \/ \E sid \in { tsx.chatSessions[i].id : i \in 1..Len(tsx.chatSessions) } :
       TsxSwitchSession(sid)
  \/ TsxNewChat
  \/ TsxHandleSearch(<<"h", "i">>)
  \/ \E ask \in tsx.asks : \E delivered \in BOOLEAN :
       \/ TsxSaveSettles(ask, delivered)
       \/ TsxAnswer(ask, delivered)
  \/ \E sid \in { tsx.chatSessions[i].id : i \in 1..Len(tsx.chatSessions) } :
       TsxDeleteChatSession(sid)
  \/ \E d \in tsx.deleting : \E delivered \in BOOLEAN : TsxDeleteSettles(d, delivered)
  \/ AuthEffect
  \/ \E delivered \in BOOLEAN : RegisterSettles(delivered)

SpecTsx == InitTsx /\ [][NextTsx]_vars

\* the notifications of DebuggerChatbot.tsx and their timers
InitNotify ==
  /\ Constructed
  /\ db = {}
  /\ user = FALSE
  /\ lambdaFunction = TRUE
  /\ storage \in { NoItem, BadItem }
  /\ uuidLimit = MaxUuidNotify

NextNotify ==
  \/ TsxMount
  \/ TsxEffects
  \/ TsxHandleSearch(<<"h", "i">>)
  \/ \E ask \in tsx.asks : \E answered \in BOOLEAN : TsxAnswer(ask, answered)
  \/ TsxExpire
  \/ TsxTick

SpecNotify == InitNotify /\ [][NextNotify]_vars

\* lines 140-149, and lines 80-87 of DebuggerChatbot.tsx: generateSessionTitle
\* is called by itself
generateSessionTitleCall(msgs) ==
  /\ titleCall' = [called |-> TRUE, msgs |-> msgs,
                   title |-> generateSessionTitle(msgs),
                   titleTsx |-> generateSessionTitleTsx(msgs)]
  /\ UNCHANGED <<componentVars, storage, user, lambdaFunction, uuidLimit, tsx, db, auth>>

\* generateSessionTitle by itself: lists of messages of either sender whose
\* texts are short, at a limit, or one character beyond it
TitleTexts ==
  { [i \in 1..n |-> "x"] : n \in { 2, TITLE_MAX, TITLE_MAX + 1, TITLE_MAX_TSX + 1 } }
TitleMessages ==
  { Message(NoId, sender, text, FALSE) :
      sender \in { "user", "aws", "system" }, text \in TitleTexts }
TitleLists ==
  UNION { [1..n -> TitleMessages] : n \in 0..MaxTitleMsgs }

InitTitle ==
  /\ Constructed
  /\ db = {}
  /\ user = TRUE
  /\ lambdaFunction = TRUE
  /\ storage = NoItem
  /\ uuidLimit = MaxUuidSwitch

NextTitle == \E msgs \in TitleLists : generateSessionTitleCall(msgs)

SpecTitle == InitTitle /\ [][NextTitle]_vars

\* the load of whatever is stored, and switchSession by itself: any id, with
\* the list of the component, a part of it, the stored list or no list at all
SwitchIds == Ids(chatSessions) \cup OldIds \cup { NoId }
SwitchLists ==
  { chatSessions, SubSeq(chatSessions, 2, Len(chatSessions)),
    LoadedState(RestoredItem, nextUuid, now).chatSessions, <<>> }

InitSwitch ==
  /\ Constructed
  /\ db = {}
  /\ user = TRUE
  /\ lambdaFunction = TRUE
  /\ storage \in StoredItems
  /\ uuidLimit = MaxUuidSwitch

NextSwitch ==
  \/ Mount
  \/ \E sessionId \in SwitchIds, allSessions \in SwitchLists :
       CallSwitchSession(sessionId, allSessions)

SpecSwitch == InitSwitch /\ [][NextSwitch]_vars

(* ------------------------------ properties ----------------------------- *)
\* the positions of the list that hold the current session
CurrentSessions == { i \in 1..Len(chatSessions) : chatSessions[i].id = currentSessionId }

\* C1: once the deletion of the current session is confirmed and the deferred
\* switch has run, exactly one session of the list is current: the remaining
\* session with the greatest timestamp when sessions remain, and otherwise a
\* freshly created session without messages that is the whole list
DeleteCurrentSelectsLatest ==
  /\ lastStep = "delete, sessions remain" =>
       /\ Cardinality(CurrentSessions) = 1
       /\ \A i \in CurrentSessions : \A j \in 1..Len(chatSessions) :
            chatSessions[j].timestamp <= chatSessions[i].timestamp
  /\ lastStep = "delete, none remains" =>
       /\ Len(chatSessions) = 1
       /\ CurrentSessions = {1}
       /\ chatSessions[1].messages = <<>>
       /\ chatSessions[1].isNew
       /\ chatSessions[1].name = NEW_CHAT
       /\ chatSessions[1].id < nextUuid
       /\ chatSessions[1].id \notin OldIds

\* the deferred switch ran after the current session was deleted, and the
\* session it selected is not the head of the list
DeleteCurrentSelectedLatest ==
  /\ lastStep = "delete, sessions remain"
  /\ Len(chatSessions) >= 2
  /\ chatSessions[1].id # currentSessionId

\* C2: whenever initialization has finished and no deferred switch is pending,
\* no two sessions of the list share an id and currentSessionId is the id of
\* exactly one session of the list
UniqueIdsOneCurrent ==
  (Ready /\ timers = <<>>) =>
    /\ \A i, j \in 1..Len(chatSessions) :
         chatSessions[i].id = chatSessions[j].id => i = j
    /\ Cardinality(CurrentSessions) = 1

\* a persisted session was deleted, a session was created and another one
\* selected, and no switch is pending
ManySessionsAfterDelete ==
  /\ Ready /\ timers = <<>>
  /\ Len(chatSessions) >= 2
  /\ storage = RestoredItem
  /\ \E id \in OldIds : id \notin Ids(chatSessions)
  /\ \E id \in Ids(chatSessions) : id \notin OldIds
  /\ chatSessions[1].id # currentSessionId

IsPrefix(s, t) == Len(s) <= Len(t) /\ SubSeq(t, 1, Len(s)) = s

\* C3: across every step, the stored messages of every session that stays in
\* the list stay as they are or are extended at the end
MessagesOnlyAppended ==
  [][\A i \in 1..Len(chatSessions) : \A j \in 1..Len(chatSessions') :
       chatSessions[i].id = chatSessions'[j].id =>
         IsPrefix(chatSessions[i].messages, chatSessions'[j].messages)]_vars

\* a persisted session took a prompt and its answer after its persisted
\* messages while another session is in the list, and the list was written
LongSessionWritten ==
  /\ Len(chatSessions) >= 2
  /\ \E i \in 1..Len(chatSessions) :
       /\ Len(chatSessions[i].messages) = Len(HiMsgs) + 2
       /\ IsPrefix(HiMsgs, chatSessions[i].messages)
  /\ lastWrite = "ok"

\* the messages the list stores under the id sid
StoredMessages(sessions, sid) ==
  { sessions[i].messages : i \in { k \in 1..Len(sessions) : sessions[k].id = sid } }

\* every session but sid keeps its place and its messages
OthersKeepMessages(sid) ==
  /\ Len(chatSessions') = Len(chatSessions)
  /\ \A i \in 1..Len(chatSessions) :
       /\ chatSessions'[i].id = chatSessions[i].id
       /\ chatSessions[i].id # sid => chatSessions'[i].messages = chatSessions[i].messages

\* C4: an ask that initiates a remote call appends the prompt to the stored
\* messages of the session current at submission; when the call settles, one
\* further message, an answer on success and a system message on failure, is
\* appended to that same session, after the prompt, if the session is still in
\* the list; no other session's stored messages change
AskAppendsToItsSession ==
  [][/\ \A call \in inflight' \ inflight :
          /\ call.sid = currentSessionId
          /\ \E i \in 1..Len(chatSessions) :
               /\ chatSessions[i].id = call.sid
               /\ Len(chatSessions'[i].messages) = Len(chatSessions[i].messages) + 1
               /\ IsPrefix(chatSessions[i].messages, chatSessions'[i].messages)
               /\ LET m == chatSessions'[i].messages[Len(chatSessions'[i].messages)]
                  IN m.sender = "user" /\ m.id = call.prompt /\ m.text # EmptyText
          /\ OthersKeepMessages(call.sid)
     /\ \A call \in inflight \ inflight' :
          /\ \A i \in 1..Len(chatSessions) :
               chatSessions[i].id = call.sid =>
                 /\ Len(chatSessions'[i].messages) = Len(chatSessions[i].messages) + 1
                 /\ IsPrefix(chatSessions[i].messages, chatSessions'[i].messages)
                 /\ \E k \in 1..Len(chatSessions[i].messages) :
                      chatSessions[i].messages[k].id = call.prompt
                 /\ chatSessions'[i].messages[Len(chatSessions'[i].messages)].sender
                      \in { "aws", "system" }
                 /\ \A response \in AllResponses :
                      AskSettles(call, response) =>
                        chatSessions'[i].messages[Len(chatSessions'[i].messages)].sender
                          = IF RoundTrip(response).threw THEN "system" ELSE "aws"
          /\ OthersKeepMessages(call.sid)]_vars

\* the answer arrived in a session that the user had left while the call was
\* in flight
AnsweredAfterSwitch ==
  /\ inflight = {}
  /\ \E i \in 1..Len(chatSessions) :
       /\ chatSessions[i].id # currentSessionId
       /\ Len(chatSessions[i].messages) >= 2
       /\ chatSessions[i].messages[Len(chatSessions[i].messages)].sender
            \in { "aws", "system" }
       /\ chatSessions[i].messages[Len(chatSessions[i].messages) - 1].sender = "user"
       /\ chatSessions[i].messages[Len(chatSessions[i].messages) - 1].id
            \in 1..(nextUuid - 1)

\* C5: whatever the user does between submissions, a remote call is initiated
\* only when 1000 ms or more have passed since the call initiated before it
OneCallPerWindow ==
  [][inflight' \ inflight # {} => sinceCall >= THROTTLE_MS]_vars

\* the responses that are gateway envelopes with a status of 400 or more
GatewayFailures ==
  { r \in AllResponses :
      /\ ~r.rejected
      /\ ~Truthy(r.FunctionError)
      /\ r.Payload.type = "string" /\ r.Payload.json # NotJson
      /\ Get(r.Payload.json, "statusCode").type = "number"
      /\ Get(r.Payload.json, "statusCode").n >= 400
      /\ Get(r.Payload.json, "body").type = "string" }

\* the body's error field, else its message field, else the raw body, else
\* the status fallback
MostSpecific(response) == EnvelopeError(response.Payload.json).message

\* C6: an ask answered by a gateway envelope with a status of 400 or more
\* fails, and both the error notification and the system chat message carry
\* the most specific message of the envelope
GatewayFailureCarriesSpecificMessage ==
  [][\A call \in inflight : \A response \in GatewayFailures :
       AskSettles(call, response) =>
         /\ error' = MostSpecific(response)
         /\ messages'[Len(messages')].sender = "system"
         /\ messages'[Len(messages')].text = Str("Error: ") \o MostSpecific(response)]_vars

\* a submission that the throttle lets through and the validation rejects
RejectedSubmission(term) ==
  /\ throttleWait = 0
  /\ Trim(term) # EmptyText
  /\ ~user \/ ~lambdaFunction
  /\ handleSearch(term)

\* a round trip that settles in a failure
FailedRoundTrip(call, response) ==
  /\ RoundTrip(response).threw
  /\ AskSettles(call, response)

\* the step appends one system message to the displayed messages
SystemMessageShown ==
  /\ Len(messages') = Len(messages) + 1
  /\ IsPrefix(messages, messages')
  /\ messages'[Len(messages')].sender = "system"
  /\ Head(messages'[Len(messages')].text) = "Error: "

\* the list and the pointer stay usable: the same sessions, one of them current
ListStaysUsable ==
  /\ currentSessionId' = currentSessionId
  /\ [i \in 1..Len(chatSessions') |-> chatSessions'[i].id]
       = [i \in 1..Len(chatSessions) |-> chatSessions[i].id]
  /\ Cardinality({ i \in 1..Len(chatSessions') : chatSessions'[i].id = currentSessionId' }) = 1
  /\ ~loading'

Superseded == { c \in logsPending : c # abortControllerRef }

\* C8: a log fetch that a newer one supersedes is marked cancelled and, however
\* it settles, changes neither the displayed log lines nor the error
\* notification; at most one pending log fetch is not cancelled
SupersededFetchIsSilent ==
  /\ [](Superseded \subseteq aborted /\ Cardinality(logsPending \ aborted) <= 1)
  /\ [][\A c \in Superseded :
          c \notin logsPending' => cloudWatchLogs' = cloudWatchLogs /\ error' = error]_vars

\* a step of a poll cycle after the mount: a cycle starts or a query settles
PollStep ==
  /\ Ready
  /\ \/ pollCycle' # pollCycle
     \/ metricsPending' # metricsPending
     \/ logsPending' # logsPending

\* the input accepts a submission
CanSubmit == PageTurn /\ ~loading /\ throttleWait = 0

\* C9: a step of a poll cycle, whether a query succeeds or fails, leaves the
\* session list, the current session id and the displayed messages as they
\* are, keeps every pending ask pending, and leaves the input accepting a
\* submission if it did before
PollLeavesChatAlone ==
  [][PollStep =>
       /\ UNCHANGED <<chatSessions, currentSessionId, messages, inflight>>
       /\ CanSubmit => CanSubmit']_vars

\* an ask was submitted and answered while the metric queries of a cycle never
\* returned and a log query failed
AnsweredBesideFailingPoll ==
  /\ metricsPending # {}
  /\ cloudWatchLogs = <<ERROR_LOGS>>
  /\ pollCycle >= 2
  /\ inflight = {}
  /\ Len(messages) = 2
  /\ messages[2].sender = "aws"
  /\ \E i \in CurrentSessions : chatSessions[i].messages = messages

\* the debounced call fires: localStorage.setItem is called
WriteStep == persistWait = 0 /\ persistWait' = -1 /\ lastWrite' # "none" /\ phase' = "ready"

\* C10: while the component is mounted, a write is pending from every change
\* of the list until 500 ms have passed without another change, no write
\* happens before that, one write happens then and none after it until the
\* list changes again, and a write that succeeds stores the projection of the
\* list
OneWritePerQuietPeriod ==
  /\ [](Ready /\ chatSessions # <<>> =>
          /\ persistWait >= 0 => persistWait = DEBOUNCE_MS - sinceChange
          /\ persistWait = -1 => sinceChange >= DEBOUNCE_MS /\ lastWrite # "none"
          /\ persistWait = -1 /\ lastWrite = "ok" =>
               storage = ArrayItem(Projection(chatSessions)))
  /\ [][/\ (storage' # storage \/ lastWrite' # lastWrite) => WriteStep
        /\ WriteStep =>
             /\ sinceChange >= DEBOUNCE_MS
             /\ lastWrite' = "ok" => storage' = ArrayItem(Projection(chatSessions))
             /\ lastWrite' = "failed" => storage' = storage
             /\ chatSessions' = chatSessions]_vars

\* a prompt and its answer changed the list, and the list was written once
\* the changes had stopped
AnsweredSessionWritten ==
  /\ Ready
  /\ persistWait = -1
  /\ lastWrite = "ok"
  /\ storage = ArrayItem(Projection(chatSessions))
  /\ \E i \in 1..Len(chatSessions) :
       \E k \in 1..Len(chatSessions[i].messages) :
         /\ chatSessions[i].messages[k].sender = "aws"
         /\ chatSessions[i].messages[k].id \in 1..(nextUuid - 1)

\* what the round trip keeps of a session
Kept(s) == [id |-> s.id, name |-> s.name, timestamp |-> s.timestamp, messages |-> s.messages]

\* the list is ordered by descending timestamp
SortedDesc(sessions) ==
  \A i \in 1..(Len(sessions) - 1) : sessions[i].timestamp >= sessions[i + 1].timestamp

\* C11: for every list the component reaches, the load effect run on what
\* persistSessions writes for it gives a list with the same ids and, for
\* each, the same name, timestamp and messages, ordered by descending
\* timestamp, whose first session is current with its messages displayed
RestartRestoresSessions ==
  (Ready /\ chatSessions # <<>>) =>
    LET r == LoadedState(ArrayItem(Projection(chatSessions)), nextUuid, now) IN
    /\ Len(r.chatSessions) = Len(chatSessions)
    /\ { Kept(r.chatSessions[i]) : i \in 1..Len(r.chatSessions) }
         = { Kept(chatSessions[i]) : i \in 1..Len(chatSessions) }
    /\ SortedDesc(r.chatSessions)
    /\ r.currentSessionId = r.chatSessions[1].id
    /\ r.messages = r.chatSessions[1].messages
    /\ r.uuid = nextUuid

\* the store holds what persistSessions wrote for a list that is not ordered
\* by timestamp and whose latest session has messages
UnsortedListWritten ==
  /\ Ready
  /\ lastWrite = "ok"
  /\ storage = ArrayItem(Projection(chatSessions))
  /\ ~SortedDesc(chatSessions)
  /\ LoadedState(storage, nextUuid, now).messages # <<>>

\* sessions without those whose id is sid
Without(sessions, sid) == SelectSeq(sessions, LAMBDA e : e.id # sid)

\* C12: switchSession(s, L) with s not in L puts one new empty session at the
\* front of the list, removes any entry with id s, makes the new session
\* current and displays no message; with s in L it makes s current, displays
\* the messages L stores for s and leaves the list as it is
SwitchSessionIsTotal ==
  [][\A sessionId \in SwitchIds : \A allSessions \in SwitchLists :
       CallSwitchSession(sessionId, allSessions) =>
         IF sessionId \in Ids(allSessions)
         THEN /\ currentSessionId' = sessionId
              /\ \E i \in 1..Len(allSessions) :
                   /\ allSessions[i].id = sessionId
                   /\ messages' = allSessions[i].messages
              /\ chatSessions' = chatSessions
         ELSE /\ Len(chatSessions') >= 1
              /\ Tail(chatSessions') = Without(chatSessions, sessionId)
              /\ chatSessions'[1].id \notin Ids(chatSessions) \cup { sessionId }
              /\ chatSessions'[1].messages = <<>>
              /\ chatSessions'[1].isNew
              /\ chatSessions'[1].name = NEW_CHAT
              /\ currentSessionId' = chatSessions'[1].id
              /\ messages' = <<>>]_vars

\* switchSession did not find the id in the list it was given, created a
\* session and removed the stored session that carried the id
SwitchCreatedSession ==
  /\ lastStep = "switch, id not found"
  /\ storage = RestoredItem
  /\ Len(chatSessions) = Len(TwoSessions)
  /\ chatSessions[1].id = currentSessionId
  /\ chatSessions[1].id \notin OldIds
  /\ messages = <<>>

\* the first 40 characters of the text, followed by "..." if some are left out
TitleOf(text) ==
  IF Len(text) <= 40 THEN text ELSE SubSeq(text, 1, 40) \o <<"...">>

\* C13: the first user message appended to a session that has isNew set and
\* no message names the session after that message and clears isNew; a
\* message appended to a session that has messages leaves the name as it is
FirstMessageTitlesSession ==
  [][\A i \in 1..Len(chatSessions) : \A j \in 1..Len(chatSessions') :
       (/\ chatSessions'[j].id = chatSessions[i].id
        /\ Len(chatSessions'[j].messages) = Len(chatSessions[i].messages) + 1) =>
         LET last == chatSessions'[j].messages[Len(chatSessions'[j].messages)] IN
         /\ (chatSessions[i].isNew /\ chatSessions[i].messages = <<>>
                /\ last.sender = "user") =>
              /\ chatSessions'[j].name = TitleOf(last.text)
              /\ ~chatSessions'[j].isNew
         /\ chatSessions[i].messages # <<>> =>
              chatSessions'[j].name = chatSessions[i].name]_vars

\* a session took its title, cut to 40 characters, from its first prompt and
\* kept it when the reply was appended
TruncatedTitleKept ==
  /\ \E i \in 1..Len(chatSessions) :
       /\ Len(chatSessions[i].name) = 41
       /\ chatSessions[i].name[41] = "..."
       /\ Len(chatSessions[i].messages) = 2
       /\ chatSessions[i].messages[2].sender \in { "aws", "system" }
       /\ ~chatSessions[i].isNew
  /\ inflight = {}

\* the number of characters of a text: a typed character is one fragment
RECURSIVE CharLen(_)
CharLen(t) ==
  IF t = <<>> THEN 0
  ELSE CharLen(Tail(t)) +
       (CASE Head(t) = "..." -> 3
          [] Head(t) = "New Chat" -> 8
          [] Head(t) = "undefined" -> 9
          [] OTHER -> 1)

\* the title the messages call for
ExpectedTitle(msgs) ==
  LET users == SelectSeq(msgs, LAMBDA m : m.sender = "user") IN
  IF users = <<>> THEN <<"New Chat">> ELSE TitleOf(users[1].text)

\* C14, for the component of src/unnamed/part_003
TitleIsBounded ==
  titleCall.called =>
    /\ CharLen(titleCall.title) <= 43
    /\ titleCall.title = ExpectedTitle(titleCall.msgs)

\* C14: generateSessionTitle, in either component, returns at most 43
\* characters: the text of the first user message if it has at most 40
\* characters, its first 40 characters and "..." if it has more, and
\* "New Chat" if no message is the user's
EveryTitleIsBounded ==
  /\ TitleIsBounded
  /\ titleCall.called =>
       /\ CharLen(titleCall.titleTsx) <= 43
       /\ titleCall.titleTsx = ExpectedTitle(titleCall.msgs)

\* C15: confirming the deletion of a session that is not the current one
\* removes that session and no other, keeps every other session as it was,
\* and leaves the current id and the displayed messages alone, with no switch
\* scheduled; cancelling the dialog changes neither the list, nor the current
\* id, nor the displayed messages, nor the stored item
DeleteOtherRemovesOnlyIt ==
  [][ /\ (handleConfirmDelete /\ sessionToDelete # currentSessionId) =>
           /\ chatSessions' = Without(chatSessions, sessionToDelete)
           /\ Len(chatSessions') = Len(chatSessions) - 1
           /\ UNCHANGED <<currentSessionId, messages, timers>>
      /\ CancelDelete => UNCHANGED <<chatVars, timers, storage>>
    ]_vars

\* a session other than the current one was deleted while the current one
\* showed its messages and another session stayed beside it
OtherSessionDeleted ==
  /\ lastStep = "delete, not current"
  /\ messages # <<>>
  /\ Len(chatSessions) >= 2
  /\ \E i \in 1..Len(chatSessions) :
       chatSessions[i].id = currentSessionId /\ chatSessions[i].messages = messages

\* C16: when the session an ask was submitted in has been deleted before the
\* remote call settles, the answer or the error message that arrives is
\* appended to no session: the step leaves the session list as it was, so the
\* deleted session does not come back
LateAnswerGoesNowhere ==
  [][ \A call \in inflight, response \in AllResponses :
        (AskSettles(call, response) /\ call.sid \notin Ids(chatSessions)) =>
          /\ chatSessions' = chatSessions
          /\ call.sid \notin Ids(chatSessions')
    ]_vars

\* an answer arrived for a session deleted meanwhile: it is displayed, and no
\* session of the list holds it
LateAnswerArrived ==
  /\ lastStep = "answer, session deleted"
  /\ inflight = {}
  /\ messages # <<>>
  /\ messages[Len(messages)].sender = "aws"
  /\ \A i \in 1..Len(chatSessions) : \A k \in 1..Len(chatSessions[i].messages) :
       chatSessions[i].messages[k].id # messages[Len(messages)].id

\* the entries of the stored item the load makes sessions of: the objects of
\* a stored array
StoredEntries(item) ==
  IF item.kind = "json" /\ item.isArray
  THEN SelectSeq(item.items, LAMBDA e : ~Has(e, "null"))
  ELSE <<>>

CallOnlyForValidSubmission ==
  [][ /\ inflight' \ inflight # {} =>
           /\ user /\ lambdaFunction
           /\ \E term \in Terms : handleSearch(term) /\ Trim(term) # <<>>
      /\ \A term \in Terms : handleSearch(term) =>
           /\ (Trim(term) = <<>> \/ ~user \/ ~lambdaFunction) =>
                /\ inflight' = inflight
                /\ sinceCall' = sinceCall
                /\ UNCHANGED <<chatSessions, currentSessionId, messages>>
           /\ inflight' # inflight =>
                /\ Len(messages') = Len(messages) + 1
                /\ messages'[Len(messages')].sender = "user"
                /\ messages'[Len(messages')].text = Trim(term)
                /\ \E i \in 1..Len(chatSessions') :
                     /\ chatSessions'[i].id = currentSessionId
                     /\ chatSessions'[i].messages =
                          Append(chatSessions[i].messages, messages'[Len(messages')])
    ]_vars

\* a prompt was submitted with no function name configured: the notification
\* says so, no call was made and no message is displayed or stored
UnconfiguredSubmissionRejected ==
  /\ error = <<"Lambda function not configured.">>
  /\ user /\ ~lambdaFunction
  /\ throttleWait > 0
  /\ inflight = {}
  /\ messages = <<>>
  /\ \A i \in 1..Len(chatSessions) : chatSessions[i].messages = <<>>

\* a parsed payload that has the shape of a gateway envelope
IsEnvelope(o) ==
  /\ o.type = "object"
  /\ { "statusCode", "body" } \subseteq DOMAIN o.fields
  /\ o.fields.statusCode.type = "number"
  /\ o.fields.body.type = "string"

\* the responses normalization applies to: resolved, without function error,
\* and no envelope with a status of 400 or more
Normalizable(response) ==
  /\ ~response.rejected
  /\ response.FunctionError.type = "undefined"
  /\ response.Payload.type = "string"
  /\ ~(IsEnvelope(response.Payload.json) /\ response.Payload.json.fields.statusCode.n >= 400)

\* the value that carries the answer: the payload decoded, or the body of the
\* envelope decoded; NotJson where the text does not decode
Carrier(response) ==
  LET o == response.Payload.json IN
  IF IsEnvelope(o) THEN o.fields.body.json ELSE o

HasAnswer(o) ==
  o.type = "object" /\ { "response", "message" } \cap DOMAIN o.fields # {}

AnswerOf(o) ==
  IF "response" \in DOMAIN o.fields THEN o.fields.response.raw ELSE o.fields.message.raw

\* the step appends an assistant message with that text to the display
AnswerShown(t) ==
  /\ Len(messages') = Len(messages) + 1
  /\ messages'[Len(messages')].sender = "aws"
  /\ messages'[Len(messages')].text = t

\* the step appends the system message of the invalid-response failure, and
\* no assistant message
InvalidResponseShown ==
  /\ Len(messages') = Len(messages) + 1
  /\ messages'[Len(messages')].sender = "system"
  /\ messages'[Len(messages')].text =
       <<"Error: ", "Received an invalid response from the service.">>
  /\ error' = <<"Received an invalid response from the service.">>

SettledFetchReplacesLogs ==
  [][ \A c \in logsPending \ aborted :
        /\ \A err \in TelemetryErrors : LogsFail(c, err) =>
             cloudWatchLogs' = << <<"Error fetching logs.">> >>
        /\ \A events \in LogData(c) : LogsArrive(c, events) =>
             IF events = <<>>
             THEN cloudWatchLogs' = << <<"No recent logs found.">> >>
             ELSE /\ Len(cloudWatchLogs') = Len(events)
                  /\ Len(cloudWatchLogs') <= 20
                  /\ \A i \in 1..Len(events) :
                       IF "message" \in DOMAIN events[i] /\ Trim(events[i].message) # <<>>
                       THEN cloudWatchLogs'[i] = Trim(events[i].message)
                       ELSE cloudWatchLogs'[i] = <<"Empty log message">>
    ]_vars

\* two poll cycles ran, and the fetch that settled last without being
\* superseded returned two events, one of them without text
LogLinesReplaced ==
  /\ pollCycle = 2
  /\ logsPending = {}
  /\ cloudWatchLogs = << <<"START RequestId">>, <<"Empty log message">> >>

\* C22: in DebuggerChatbot.tsx, once the mount and the effects that follow it
\* have run on a stored list that is not empty, every stored session, the
\* first one included, has its stored messages in the list of the component
\* and in the stored item, the first is current and its messages are
\* displayed
StoredMessagesSurviveMount ==
  ( /\ tsx.phase = "ready" /\ tsx.stale = {} /\ ~tsx.acted
    /\ tsx.found.kind = "json" /\ Len(tsx.found.items) > 0 ) =>
      /\ Len(tsx.chatSessions) = Len(tsx.found.items)
      /\ \A i \in 1..Len(tsx.found.items) :
           /\ tsx.chatSessions[i].id = tsx.found.items[i].id
           /\ tsx.chatSessions[i].messages = tsx.found.items[i].messages
      /\ storage = ArrayItem(tsx.chatSessions)
      /\ tsx.currentSessionId = tsx.found.items[1].id
      /\ tsx.messages = tsx.found.items[1].messages

\* C27: in DebuggerChatbot.tsx with the server routes, when the deletion of
\* session S confirmed by a signed-in user reaches the server, the messages
\* of S saved with POST /api/users/chat leave the user's stored history and
\* the stored messages of the user's other sessions stay
DeletionRemovesItsMessages ==
  [][\A d \in tsx.deleting :
       TsxDeleteSettles(d, TRUE) =>
         \A u \in db : u.clerkId = userId =>
           \E kept \in db' :
             /\ kept.clerkId = userId
             /\ kept.chatHistory =
                  SelectSeq(u.chatHistory, LAMBDA m : m.sessionId # d.sessionId)]_vars

\* C28: for the Auth component with the /register route, a loaded, signed-in
\* user whose registration request reached the server and was answered,
\* registered before or not, has been navigated to /debugger
SignedInUserReachesDebugger ==
  (auth.request = "settled" /\ auth.delivered) => auth.route = "/debugger"

\* C30: in DebuggerChatbot.tsx, a timer of handleError clears a displayed
\* notification only when that notification has been displayed for 10 s
NotificationStaysTenSeconds ==
  [][(TsxExpire /\ tsx.error # EmptyText) => tsx.errorAge >= ERROR_MS]_vars

\* C23: in part_003, in every state with no deferred switch pending, the
\* displayed messages are the stored messages of the current session,
\* whatever the user did while a call was in flight
DisplayedAreStoredMessages ==
  (phase = "ready" /\ timers = <<>>) =>
    \A i \in 1..Len(chatSessions) :
      chatSessions[i].id = currentSessionId => messages = chatSessions[i].messages

\* C24: loading is true exactly while a call started by an ask has not
\* settled, and at most one call is in flight
LoadingWhileInFlight ==
  /\ (inflight # {}) = loading
  /\ Cardinality(inflight) <= 1

\* C25: a valid submission (a prompt that is not blank, a signed-in user, a
\* configured function) is dropped only if a remote call was started less
\* than 1000 ms before; a submission rejected by validation does not make
\* the next valid one be dropped. Stated on the states in which a submission
\* can be made and the throttle would drop it
ValidDroppedOnlyAfterCall ==
  ( /\ phase = "ready" /\ PageTurn /\ ~loading
    /\ user /\ lambdaFunction
    /\ throttleWait > 0 ) => sinceCall < THROTTLE_MS

\* C26: when the metric queries of two poll cycles overlap, the metrics
\* displayed once both have settled are those of the cycle started last
LatestCycleMetricsShown ==
  (phase = "ready" /\ metricsPending = {} /\ metrics.logEvents # 0) =>
     metrics.logEvents = pollCycle

\* C29 as stated: in part_003, in every reachable state a session's isNew
\* flag is truthy if and only if its stored messages are empty
IsNewIffNoMessages ==
  \A i \in 1..Len(chatSessions) :
    chatSessions[i].isNew <=> (chatSessions[i].messages = <<>>)

\* C29, amended: in every reachable state a session whose isNew flag is truthy
\* has no stored message, so handleNewChat never finds a session to retitle
\* whose flag is set and whose messages are not empty
IsNewOnlyWithoutMessages ==
  \A i \in 1..Len(chatSessions) :
    chatSessions[i].isNew => chatSessions[i].messages = <<>>

\* a session loaded from a stored entry without keys has no message and no
\* flag, next to a session that was created, asked in and answered
FlagClearedByAsk ==
  /\ storage = ArrayItem(<< <<>> >>)
  /\ Len(chatSessions) = 2
  /\ chatSessions[1].messages # <<>> /\ ~chatSessions[1].isNew
  /\ chatSessions[2].messages = <<>> /\ ~chatSessions[2].isNew
  /\ inflight = {}

====
